---------------------------- MODULE Spec2Model ----------------------------
(***************************************************************************)
(* Verification model of the banded, bit-packed Needleman-Wunsch engine    *)
(* (pa-base-algos: nw.rs, nw/bitpacking.rs, lib.rs) and of the cost-matrix *)
(* NW aligner (src/aligners/nw.rs).                                        *)
(*                                                                         *)
(* Scaling.  The lane width W of the bit-packed fronts (64 in the code) is *)
(* a bound of the model: row ranges are rounded to multiples of W exactly  *)
(* as in the code, with a small W.  A vector of V words is modelled as the *)
(* flat sequence of its per-row vertical deltas, W entries per word.       *)
(*                                                                         *)
(* Seams.  The files of the repository come from different revisions:      *)
(*  - nw.rs passes None to set_last_front_fixed_j_range for every domain   *)
(*    but A*, where bitpacking.rs asserts is_some(): the call is modelled  *)
(*    as doing nothing for None;                                           *)
(*  - nw.rs reads the fixed range of BitFront::default() for the first     *)
(*    column of the A* domain, where bitpacking.rs has None: the model     *)
(*    reads the empty-start range JRange(-1, -1) there;                    *)
(*  - nw.rs calls exponential_search with a start increment, lib.rs takes  *)
(*    none: the model follows lib.rs and drops the increment.              *)
(* Counters that only feed statistics (unique_rows, computed_rows) are not *)
(* modelled.                                                               *)
(***************************************************************************)
EXTENDS Integers, Sequences, FiniteSets, TLC

\* ------------------------------------------------------------------------
\* Bounds of the model
\* ------------------------------------------------------------------------
\* Lane width of a V word (64 in the code); the rounding unit of row ranges.
W == 2
\* Longest sequence A.
MaxLenA == 3
\* Longest sequence B.
MaxLenB == 4
\* Largest block width (columns per compute_next_block call).
MaxBlockWidth == 2

\* ------------------------------------------------------------------------
\* Program constants
\* ------------------------------------------------------------------------
\* Cost::MAX, the top_val / bot_val of BitFront::default().
CostMax == 2147483647

\* ------------------------------------------------------------------------
\* Arithmetic of the source language
\* ------------------------------------------------------------------------
Min2(x, y) == IF x <= y THEN x ELSE y
Max2(x, y) == IF x >= y THEN x ELSE y

\* Integer division of Rust: truncates toward zero (y > 0).
TDiv(x, y) == IF x >= 0 THEN x \div y ELSE -((-x) \div y)

\* i32::div_ceil for a positive divisor.
DivCeil(x, y) == -((-x) \div y)

\* i32::next_multiple_of for a positive rhs: the smallest multiple >= x.
NextMultipleOf(x, y) == DivCeil(x, y) * y

\* Option<T>: None is the empty tuple, Some(x) the one-element tuple.
None == <<>>
Some(x) == <<x>>
IsSome(o) == Len(o) = 1
Unwrap(o) == o[1]

\* JRange(lo, hi) is the inclusive range lo..=hi, a pair; empty iff lo > hi.
JRange(lo, hi) == <<lo, hi>>
is_empty(r) == r[1] > r[2]
\* exclusive_len of a range: hi - lo.
exclusive_len(r) == r[2] - r[1]

Ones(k) == [x \in 1..k |-> 1]

\* Sum of the entries s[lo+1 .. hi] (0-based rows lo .. hi-1); entries
\* outside the sequence count 0.
RECURSIVE SumRange(_, _, _)
SumRange(s, lo, hi) ==
    IF lo >= hi THEN 0
    ELSE (IF (lo + 1) \in DOMAIN s THEN s[lo + 1] ELSE 0) + SumRange(s, lo + 1, hi)

\* The slice s[lo .. hi) (0-based), and s with that slice replaced by t.
Slice(s, lo, hi) == [k \in 1..(hi - lo) |-> s[lo + k]]
Splice(s, lo, t) ==
    [k \in 1..Len(s) |-> IF k > lo /\ k <= lo + Len(t) THEN t[k - lo] ELSE s[k]]


\* ------------------------------------------------------------------------
\* State
\* ------------------------------------------------------------------------
VARIABLES
    a,               \* sequence A
    b,               \* sequence B
    nw,              \* NW: domain, heuristic, strategy, start, factor, block_width, sparse_h
    params,          \* BitFrontsTag: sparse, incremental_doubling
    trace,           \* BitFronts.trace: keep the fronts needed for a traceback
    fronts,          \* BitFronts.fronts
    last_front_idx,  \* BitFronts.last_front_idx
    i_range,         \* BitFronts.i_range
    h,               \* BitFronts.h: the stored horizontal deltas, one per column
    f_max,           \* the bound of the running align_for_bounded_dist call
    pc,              \* the position of the driver
    st,              \* trace: the current state `to`
    g,               \* trace: the running cost
    block_start,     \* trace: the first column of the block being traced
    cigar,           \* trace: the operations pushed so far (last edge first)
    dist,            \* align_for_bounded_dist: the value read at the target
    ret,             \* the value the last align_for_bounded_dist call returned
    tried,           \* exponential_search: the bounds tried and what f returned
    differ,          \* a split computation differed from the plain recomputation
    results          \* the outcomes of the align calls made so far, one per configuration

\* The alphabet of the sequences.
Alphabet == {0, 1}

\* All sequences over S of length at most k.
SeqsUpTo(S, k) == UNION {[1..len -> S] : len \in 0..k}

n == Len(a)
m == Len(b)

\* ------------------------------------------------------------------------
\* Reference edit distance (the oracle the tests compare with)
\* ------------------------------------------------------------------------
RECURSIVE LevRow(_, _, _, _)
LevRow(prev, c, y, acc) ==
    IF Len(acc) = Len(y) + 1 THEN acc
    ELSE LET j == Len(acc)
             d == Min2(Min2(prev[j] + (IF c = y[j] THEN 0 ELSE 1), prev[j + 1] + 1),
                       acc[j] + 1)
         IN  LevRow(prev, c, y, Append(acc, d))

RECURSIVE LevRows(_, _, _, _)
LevRows(x, y, k, prev) ==
    IF k > Len(x) THEN prev[Len(y) + 1]
    ELSE LevRows(x, y, k + 1, LevRow(prev, x[k], y, <<prev[1] + 1>>))

\* Unit-cost Levenshtein distance of x and y.
Lev(x, y) == LevRows(x, y, 1, [j \in 1..(Len(y) + 1) |-> j - 1])

\* Edit distance of the suffixes a[i..] and b[j..].
LevSuffix(i, j) == Lev(SubSeq(a, i + 1, n), SubSeq(b, j + 1, m))

\* ------------------------------------------------------------------------
\* Cost model (AffineCost::unit) and heuristics
\* ------------------------------------------------------------------------
min_ins_extend == 1
min_del_extend == 1
max_del_for_cost(s) == s \div min_del_extend
max_ins_for_cost(s) == s \div min_ins_extend

\* Positions are pairs <<i, j>>.
gap_cost(u, v) ==
    LET delta == (v[1] - u[1]) - (v[2] - u[2])
    IN  IF delta >= 0 THEN delta * min_del_extend ELSE (-delta) * min_ins_extend

extend_cost(u, v) ==
    LET delta == (v[1] - u[1]) - (v[2] - u[2])
    IN  IF delta >= 0 THEN delta * min_del_extend ELSE (-delta) * min_ins_extend

\* The heuristics of the model: no heuristic, the gap cost to the target,
\* and an admissible heuristic that is not consistent (the exact remaining
\* distance on even rows, 0 on odd rows).
Heuristics == {"Zero", "Gap", "Spike"}

h_of(kind, pos) ==
    CASE kind = "Zero"  -> 0
      [] kind = "Gap"   -> gap_cost(pos, <<n, m>>)
      [] kind = "Spike" -> IF pos[2] % 2 = 0 THEN LevSuffix(pos[1], pos[2]) ELSE 0

\* ------------------------------------------------------------------------
\* Bit profile and block compute kernel
\* ------------------------------------------------------------------------
\* Profile lookup: column i of A against row j of B.  Rows that pad B to a
\* multiple of W match nothing.
is_match(i, j) == i >= 0 /\ j >= 0 /\ i < n /\ j < m /\ a[i + 1] = b[j + 1]

\* One cell of the recurrence on deltas: from the vertical delta vin on its
\* left and the horizontal delta hin above it to <<vout, hout>>.
compute_cell(vin, hin, eq) ==
    LET d == Min2(Min2(IF eq THEN 0 ELSE 1, vin + 1), hin + 1)
    IN  <<d - hin, d - vin>>

\* One row j across the columns i0 + k - 1 (k = 1 .. Len(hs)): moves the
\* vertical delta vin to the right and the horizontal deltas hs down.
RECURSIVE compute_row(_, _, _, _, _, _)
compute_row(i0, j, vin, hs, k, acc) ==
    IF k > Len(hs) THEN <<vin, acc>>
    ELSE LET c == compute_cell(vin, hs[k], is_match(i0 + k - 1, j))
         IN  compute_row(i0, j, c[1], hs, k + 1, Append(acc, c[2]))

\* The kernel: rows j0 .. j0 + Len(vs) - 1 across columns i0 .. i0 + Len(hs) - 1.
\* Returns <<vertical deltas out, horizontal deltas out>>.
RECURSIVE compute_rows(_, _, _, _, _, _)
compute_rows(i0, j0, vs, hs, k, acc) ==
    IF k > Len(vs) THEN <<acc, hs>>
    ELSE LET r == compute_row(i0, j0 + k - 1, vs[k], hs, 1, <<>>)
         IN  compute_rows(i0, j0, vs, r[2], k + 1, Append(acc, r[1]))

compute_block(i0, j0, vs, hs) == compute_rows(i0, j0, vs, hs, 1, <<>>)

\* ------------------------------------------------------------------------
\* BitFront
\* ------------------------------------------------------------------------
round(j_range) == JRange(TDiv(j_range[1], W) * W, NextMultipleOf(j_range[2], W))

round_inward(j_range) == JRange(NextMultipleOf(j_range[1], W), TDiv(j_range[2], W) * W)

BitFront(v, i, j_range, fixed_j_range, offset, top_val, bot_val, j_h) ==
    [v |-> v, i |-> i, j_range |-> j_range, fixed_j_range |-> fixed_j_range,
     offset |-> offset, top_val |-> top_val, bot_val |-> bot_val, j_h |-> j_h]

BitFront_default ==
    BitFront(<<>>, 0, JRange(-1, -1), None, 0, CostMax, CostMax, None)

\* Clone::clone: j_h is not cloned.
clone(front) == [front EXCEPT !.j_h = None]

\* Clone::clone_from: every field but j_h is overwritten.
clone_from(front, source) == [source EXCEPT !.j_h = front.j_h]

\* The three assertions at the head of index.
index_asserts(front, j) ==
    LET rounded == round(front.j_range)
    IN  /\ rounded[1] <= j
        /\ rounded[1] - front.offset >= 0
        /\ rounded[2] - front.offset <= Len(front.v)

\* An index whose scan from the bottom stops one row short of row j.
index_short(front, j) ==
    LET rounded == round(front.j_range)
    IN  IF j > rounded[2] THEN front.bot_val + (j - rounded[2])
        ELSE IF j - rounded[1] < rounded[2] - j
        THEN front.top_val + SumRange(front.v, rounded[1] - front.offset, j - front.offset)
        ELSE front.bot_val - SumRange(front.v, j - front.offset + 1,
                                      rounded[2] - front.offset)

\* The value at row j, counted from the top or from the bottom of the
\* rounded range, whichever is closer; below the range deltas of 1 are assumed.
index(front, j) ==
    LET rounded == round(front.j_range)
    IN  IF j > rounded[2] THEN front.bot_val + (j - rounded[2])
        ELSE IF j - rounded[1] < rounded[2] - j
        THEN front.top_val + SumRange(front.v, rounded[1] - front.offset, j - front.offset)
        ELSE front.bot_val - SumRange(front.v, j - front.offset, rounded[2] - front.offset)

\* Option<Cost>: None outside the rounded range.
get(front, j) ==
    LET rounded == round(front.j_range)
    IN  IF j < rounded[1] \/ j > rounded[2] THEN None ELSE Some(index(front, j))

\* A first column of deltas 0: every row of column 0 at distance 0.
first_col_flat(j_range) ==
    LET rounded == round(j_range)
    IN  BitFront([x \in 1..exclusive_len(rounded) |-> 0], 0, j_range, Some(j_range), 0, 0,
                 0, None)

first_col(j_range) ==
    LET rounded == round(j_range)
    IN  BitFront(Ones(exclusive_len(rounded)), 0, j_range, Some(j_range), 0, 0,
                 exclusive_len(rounded), None)

\* The difference from row j to row j + 1, None outside the stored words.
get_diff(front, j) ==
    IF j < front.offset THEN None
    ELSE IF (j - front.offset) \div W >= Len(front.v) \div W THEN None
    ELSE Some(front.v[j - front.offset + 1])

\* ------------------------------------------------------------------------
\* Column computation
\* ------------------------------------------------------------------------
\* Column computation that takes horizontal deltas of 1 in every mode.
compute_columns_no_input(ir, j0, vs, hh, mode) ==
    LET len == ir[2] - ir[1]
        r   == compute_block(ir[1], j0, vs, Ones(len))
    IN  [v |-> r[1],
         h |-> IF mode \in {"Update", "Output"} THEN Splice(hh, ir[1], r[2]) ELSE hh,
         bottom_delta |-> SumRange(r[2], 0, len)]

\* Column computation that reports a bottom delta of 0.
compute_columns_no_bottom(ir, j0, vs, hh, mode) ==
    LET len == ir[2] - ir[1]
        hin == IF mode \in {"None", "Output"} THEN Ones(len) ELSE Slice(hh, ir[1], ir[2])
        r   == compute_block(ir[1], j0, vs, hin)
    IN  [v |-> r[1],
         h |-> IF mode \in {"Update", "Output"} THEN Splice(hh, ir[1], r[2]) ELSE hh,
         bottom_delta |-> 0]

\* A compute_columns that works on the stored horizontal deltas in mode
\* Input too, instead of on a copy.
compute_columns_no_copy(ir, j0, vs, hh, mode) ==
    LET len == ir[2] - ir[1]
        hin == IF mode \in {"None", "Output"} THEN Ones(len) ELSE Slice(hh, ir[1], ir[2])
        r   == compute_block(ir[1], j0, vs, hin)
    IN  [v |-> r[1],
         h |-> IF mode \in {"Update", "Output", "Input"} THEN Splice(hh, ir[1], r[2]) ELSE hh,
         bottom_delta |-> SumRange(r[2], 0, len)]

\* compute_columns on the rows j0 .. j0 + Len(vs) - 1: the new vertical
\* deltas, the stored horizontal deltas afterwards and the bottom delta (the
\* sum of the horizontal deltas leaving the last row).
compute_columns(ir, j0, vs, hh, mode) ==
    LET len == ir[2] - ir[1]
        hin == IF mode \in {"None", "Output"} THEN Ones(len) ELSE Slice(hh, ir[1], ir[2])
        r   == compute_block(ir[1], j0, vs, hin)
    IN  [v |-> r[1],
         h |-> IF mode \in {"Update", "Output"} THEN Splice(hh, ir[1], r[2]) ELSE hh,
         bottom_delta |-> SumRange(r[2], 0, len)]

\* Input vertical deltas that are 1 everywhere: nothing is copied from the
\* previous front.
initialize_next_v_ones(prev_front, j_range_rounded) ==
    Ones(exclusive_len(j_range_rounded))

\* The input vertical deltas of the rounded range: 1, and the overlap copied
\* from the previous front.
initialize_next_v(prev_front, j_range_rounded) ==
    LET prev_rounded == round(prev_front.j_range)
    IN  [k \in 1..exclusive_len(j_range_rounded) |->
            LET j == j_range_rounded[1] + k - 1
            IN  IF /\ j >= prev_rounded[1]
                   /\ j < prev_rounded[2]
                   /\ (j - prev_front.offset + 1) \in DOMAIN prev_front.v
                THEN prev_front.v[j - prev_front.offset + 1]
                ELSE 1]

\* Vec::resize(len, 1).
resize(v, len) == [k \in 1..len |-> IF k <= Len(v) THEN v[k] ELSE 1]

\* The assertions of resize_v_with_fixed, and the index checks of its loops.
resize_v_with_fixed_err(prev_front, next_front, new_j_range, v) ==
    LET new_rounded   == round(new_j_range)
        fixed_rounded == round_inward(Unwrap(next_front.fixed_j_range))
        len           == exclusive_len(new_rounded)
        old_offset    == next_front.offset
        new_offset    == new_rounded[1]
        stored_h      == Unwrap(next_front.j_h)
    IN  IF ~(new_rounded[1] <= next_front.j_range[1] /\ next_front.j_range[2] <= new_rounded[2])
        THEN "New range must contain old range"
        ELSE IF ~(new_offset <= old_offset) THEN "assert new_offset <= old_offset"
        ELSE IF ~(fixed_rounded[1] <= stored_h) THEN "assert fixed_rounded.0 <= stored_h"
        ELSE IF /\ new_offset < old_offset
                /\ \E j \in fixed_rounded[1]..(stored_h - 1) :
                       j - old_offset < 0 \/ j - old_offset >= len \/ j - new_offset >= len
        THEN "index out of bounds"
        ELSE IF \E j \in new_rounded[1]..(fixed_rounded[1] - 1) :
                    \/ j - prev_front.offset < 0
                    \/ j - prev_front.offset >= Len(prev_front.v)
                    \/ j - new_offset >= len
        THEN "index out of bounds"
        ELSE IF \E j \in stored_h..(new_rounded[2] - 1) : j - new_offset < 0
        THEN "index out of bounds"
        ELSE ""

\* A resize_v_with_fixed that takes every row from the previous front and
\* keeps nothing of the fixed part.
resize_v_with_fixed_forget(prev_front, next_front, new_j_range, v) ==
    initialize_next_v(prev_front, round(new_j_range))

\* The copy loop of step 2 moves whole words from the highest row down, at
\* most to higher indices, so every word is read before it is overwritten:
\* the result is the simultaneous assignment below.
resize_v_with_fixed(prev_front, next_front, new_j_range, v) ==
    LET new_rounded   == round(new_j_range)
        fixed_rounded == round_inward(Unwrap(next_front.fixed_j_range))
        len           == exclusive_len(new_rounded)
        old_offset    == next_front.offset
        new_offset    == new_rounded[1]
        stored_h      == Unwrap(next_front.j_h)
        v1            == resize(v, len)
    IN  [k \in 1..len |->
            LET j == new_offset + k - 1
                p == j - prev_front.offset + 1
            IN  IF j < fixed_rounded[1] \/ j >= stored_h
                THEN (IF p \in DOMAIN prev_front.v THEN prev_front.v[p] ELSE 1)
                ELSE IF new_offset < old_offset
                THEN (IF (j - old_offset + 1) \in DOMAIN v1 THEN v1[j - old_offset + 1] ELSE 1)
                ELSE v1[k]]

\* ------------------------------------------------------------------------
\* BitFronts
\* ------------------------------------------------------------------------
\* The mutable part of BitFronts, with the panic (if any) that ended the
\* call and the outcome of the debug cross-check of the split computation.
BitFronts(fr, last, ir, hh) ==
    [fronts |-> fr, last_front_idx |-> last, i_range |-> ir, h |-> hh,
     err |-> "", differ |-> FALSE]

Panic(F, msg) == [F EXCEPT !.err = msg]

\* The number of words of the profile of B.
NumWords == DivCeil(m, W)

\* BitFrontsTag::new.
new == BitFronts(<<>>, 0, <<-1, 0>>,
                 IF params.incremental_doubling THEN [k \in 1..n |-> 0] ELSE <<>>)

last_front(F) == F.fronts[F.last_front_idx + 1]

\* An init that keeps the first front left from the call before.
init_keep(F, initial_j_range) ==
    IF initial_j_range[1] # 0 THEN Panic(F, "assert initial_j_range.0 == 0")
    ELSE [F EXCEPT !.last_front_idx = 0,
                   !.i_range = <<-1, 0>>,
                   !.fronts = IF Len(F.fronts) = 0
                              THEN <<IF trace THEN first_col(initial_j_range)
                                     ELSE BitFront(Ones(NumWords * W), 0, initial_j_range,
                                                   Some(initial_j_range), 0, 0,
                                                   round(initial_j_range)[2], None)>>
                              ELSE F.fronts]

init(F, initial_j_range) ==
    IF initial_j_range[1] # 0 THEN Panic(F, "assert initial_j_range.0 == 0")
    ELSE
    LET jr == IF Len(F.fronts) > 0
              THEN JRange(Min2(F.fronts[1].j_range[1], initial_j_range[1]),
                          Max2(F.fronts[1].j_range[2], initial_j_range[2]))
              ELSE initial_j_range
        front == IF trace THEN first_col(jr)
                 ELSE BitFront(Ones(NumWords * W), 0, jr, Some(jr), 0, 0, round(jr)[2], None)
    IN  [F EXCEPT !.last_front_idx = 0,
                  !.i_range = <<-1, 0>>,
                  !.fronts = IF Len(F.fronts) = 0 THEN <<front>>
                             ELSE [F.fronts EXCEPT ![1] = front]]

\* A pop_last_front that leaves the end of i_range where it was.
pop_last_front_stale(F) ==
    IF F.i_range[2] # last_front(F).i THEN Panic(F, "assert i_range.1 == fronts[last_front_idx].i")
    ELSE IF F.last_front_idx = 0 THEN Panic(F, "attempt to subtract with overflow")
    ELSE [F EXCEPT !.last_front_idx = F.last_front_idx - 1]

pop_last_front(F) ==
    IF F.i_range[2] # last_front(F).i THEN Panic(F, "assert i_range.1 == fronts[last_front_idx].i")
    ELSE IF F.last_front_idx = 0 THEN Panic(F, "attempt to subtract with overflow")
    ELSE [F EXCEPT !.last_front_idx = F.last_front_idx - 1,
                   !.i_range = <<F.i_range[1], F.fronts[F.last_front_idx].i>>]

\* fill_block, steps 1 to 5 for the columns k .. len of the block: the front
\* of column i_range.0 + k gets the deltas after k kernel columns.
RECURSIVE fill_columns(_, _, _, _, _, _, _)
fill_columns(F, ir, jr, k, v, top_val, bot_val) ==
    IF k > ir[2] - ir[1] THEN F
    ELSE
    LET r     == compute_block(ir[1] + k - 1, round(jr)[1], v, <<1>>)
        bot   == bot_val + r[2][1]
        next_front == BitFront(r[1], ir[1] + k, jr, None, round(jr)[1], top_val + k, bot, None)
        idx   == F.last_front_idx + 1
        fr    == IF idx = Len(F.fronts) THEN Append(F.fronts, clone(next_front))
                 ELSE [F.fronts EXCEPT ![idx + 1] = clone_from(F.fronts[idx + 1], next_front)]
    IN  fill_columns([F EXCEPT !.fronts = fr, !.last_front_idx = idx],
                     ir, jr, k + 1, r[1], top_val, bot)

fill_block(F, ir, jr) ==
    LET j_range_rounded == round(jr)
        prev_front      == last_front(F)
    IN  IF ir[1] # F.i_range[2] THEN Panic(F, "Computed range does not fit")
        ELSE IF j_range_rounded[1] > j_range_rounded[2]
                \/ j_range_rounded[1] < 0
                \/ j_range_rounded[2] > NumWords * W
        THEN Panic(F, "range out of bounds of the profile")
        ELSE IF prev_front.i # ir[1] THEN Panic(F, "assert prev_front.i == i_range.0")
        ELSE IF ~index_asserts(prev_front, j_range_rounded[1]) THEN Panic(F, "assert in index")
        ELSE fill_columns([F EXCEPT !.i_range = <<F.i_range[1], ir[2]>>], ir, jr, 1,
                          initialize_next_v(prev_front, j_range_rounded),
                          index(prev_front, j_range_rounded[1]),
                          index(prev_front, j_range_rounded[2]))

\* The state of the computation of the vector v of the next front: the
\* vertical deltas, the stored horizontal deltas, the bottom delta of the
\* last compute_columns call and the failed assertion, if any.
Split(v, hh, bottom_delta, err) ==
    [v |-> v, h |-> hh, bottom_delta |-> bottom_delta, err |-> err]

\* compute_columns on the slice v[lo .. hi) of the vector of s, whose first
\* entry is row `offset`: the slice and the stored h are updated in place.
compute_columns_slice(ir, offset, s, lo, hi, mode) ==
    LET r == compute_columns(ir, offset + lo, Slice(s.v, lo, hi), s.h, mode)
    IN  Split(Splice(s.v, lo, r.v), r.h, r.bottom_delta, "")

\* A 3-range split whose assertion on j_h demands a strict increase.
split_3_strict(F, ir, jr, prev_front, next_front, next_fixed, new_j_h) ==
    LET new_range == round(jr)
        offset    == new_range[1]
        old_j_h   == Unwrap(next_front.j_h)
        e         == resize_v_with_fixed_err(prev_front, next_front, jr, next_front.v)
        v1        == resize_v_with_fixed(prev_front, next_front, jr, next_front.v)
    IN  IF e # "" THEN Split(<<>>, F.h, 0, e)
        ELSE IF ~(new_range[1] <= next_fixed[1])
        THEN Split(<<>>, F.h, 0, "assert new_range.0 <= next_fixed.0")
        ELSE IF next_fixed[1] - offset > Len(v1)
        THEN Split(<<>>, F.h, 0, "range end index out of range for slice")
        ELSE IF ~(old_j_h < new_j_h) THEN Split(<<>>, F.h, 0, "j_h may only increase!")
        ELSE compute_columns_slice(ir, offset,
                 compute_columns_slice(ir, offset,
                     compute_columns_slice(ir, offset, Split(v1, F.h, 0, ""),
                                           0, next_fixed[1] - offset, "None"),
                     old_j_h - offset, new_j_h - offset, "Update"),
                 new_j_h - offset, new_range[2] - offset, "Input")

\* compute_next_block, incremental doubling, 3-range split:
\* range 0 before the fixed part (h not used), range 1 from the previous
\* j_h to the new j_h (h updated), range 2 from the new j_h on (h input).
split_3(F, ir, jr, prev_front, next_front, next_fixed, new_j_h) ==
    LET new_range == round(jr)
        offset    == new_range[1]
        old_j_h   == Unwrap(next_front.j_h)
        e         == resize_v_with_fixed_err(prev_front, next_front, jr, next_front.v)
        v1        == resize_v_with_fixed(prev_front, next_front, jr, next_front.v)
    IN  IF e # "" THEN Split(<<>>, F.h, 0, e)
        ELSE IF ~(new_range[1] <= next_fixed[1])
        THEN Split(<<>>, F.h, 0, "assert new_range.0 <= next_fixed.0")
        ELSE IF next_fixed[1] - offset > Len(v1)
        THEN Split(<<>>, F.h, 0, "range end index out of range for slice")
        ELSE IF ~(old_j_h <= new_j_h) THEN Split(<<>>, F.h, 0, "j_h may only increase!")
        ELSE IF new_j_h - offset > Len(v1)
        THEN Split(<<>>, F.h, 0, "range end index out of range for slice")
        ELSE IF ~(new_j_h <= new_range[2])
        THEN Split(<<>>, F.h, 0, "assert new_j_h <= new_range.1")
        ELSE compute_columns_slice(ir, offset,
                 compute_columns_slice(ir, offset,
                     compute_columns_slice(ir, offset, Split(v1, F.h, 0, ""),
                                           0, next_fixed[1] - offset, "None"),
                     old_j_h - offset, new_j_h - offset, "Update"),
                 new_j_h - offset, new_range[2] - offset, "Input")

\* compute_next_block, incremental doubling, 2-range split:
\* range 01 before the new j_h (h is output), range 2 after it (h is input).
split_2(F, ir, jr, prev_front, new_j_h) ==
    LET new_range == round(jr)
        offset    == new_range[1]
        v1        == initialize_next_v(prev_front, new_range)
    IN  IF ~(new_range[1] <= new_j_h) THEN Split(<<>>, F.h, 0, "assert new_range.0 <= new_j_h")
        ELSE IF new_j_h - offset > Len(v1)
        THEN Split(<<>>, F.h, 0, "range end index out of range for slice")
        ELSE compute_columns_slice(ir, offset,
                 compute_columns_slice(ir, offset, Split(v1, F.h, 0, ""),
                                       0, new_j_h - offset, "Output"),
                 new_j_h - offset, new_range[2] - offset, "Input")

\* compute_next_block without a split: the whole rounded range in one call.
\* It is also the recomputation the split results are compared with.
compute_whole_range(F, ir, j_range_rounded, prev_front) ==
    compute_columns_slice(ir, j_range_rounded[1],
                          Split(initialize_next_v(prev_front, j_range_rounded), F.h, 0, ""),
                          0, exclusive_len(j_range_rounded), "None")

\* The end of compute_next_block with trace: the computed v goes to the next
\* front, its bot_val grows by the bottom delta, and the front becomes the
\* last one.  `whole` is the recomputation without a split.
store_next_front(F, ir, next_front, s, whole) ==
    IF s.err # "" THEN Panic(F, s.err)
    ELSE LET front == [next_front EXCEPT !.v = s.v,
                                         !.bot_val = next_front.bot_val + s.bottom_delta]
         IN  [F EXCEPT !.i_range = <<F.i_range[1], ir[2]>>,
                       !.last_front_idx = F.last_front_idx + 1,
                       !.h = s.h,
                       !.differ = s.v # whole.v \/ s.bottom_delta # whole.bottom_delta,
                       !.fronts = IF F.last_front_idx + 1 = Len(F.fronts)
                                  THEN Append(F.fronts, front)
                                  ELSE [F.fronts EXCEPT ![F.last_front_idx + 2] = front]]

\* compute_next_block, trace with one stored front per block.
compute_next_block_sparse(F, ir, jr) ==
    LET j_range_rounded == round(jr)
        front     == last_front(F)
        pushed    == F.last_front_idx + 1 = Len(F.fronts)
        next0     == IF pushed THEN BitFront_default ELSE F.fronts[F.last_front_idx + 2]
        split     == /\ params.incremental_doubling
                     /\ IsSome(front.fixed_j_range)
                     /\ IsSome(next0.fixed_j_range)
        next_fixed == round_inward(Unwrap(next0.fixed_j_range))
        new_j_h   == round_inward(Unwrap(front.fixed_j_range))[2]
        next_front == [next0 EXCEPT !.i = ir[2],
                                    !.top_val = index(front, j_range_rounded[1])
                                                + (ir[2] - ir[1]),
                                    !.bot_val = index(front, j_range_rounded[2]),
                                    !.j_range = jr,
                                    !.offset = j_range_rounded[1],
                                    !.j_h = IF split THEN Some(new_j_h) ELSE next0.j_h]
    IN  IF ir[1] # F.i_range[2] THEN Panic(F, "assert i_range.0 == self.i_range.1")
        ELSE IF j_range_rounded[1] > j_range_rounded[2]
                \/ j_range_rounded[1] < 0
                \/ j_range_rounded[2] > NumWords * W
        THEN Panic(F, "range out of bounds of the profile")
        ELSE IF ~index_asserts(front, j_range_rounded[1]) THEN Panic(F, "assert in index")
        ELSE IF ~pushed /\ next0.i # ir[2] THEN Panic(F, "Reused front for another column")
        ELSE store_next_front(F, ir, next_front,
                 IF ~split THEN compute_whole_range(F, ir, j_range_rounded, front)
                 ELSE IF IsSome(next0.j_h) /\ next_fixed[1] < Unwrap(next0.j_h)
                 THEN split_3(F, ir, jr, front, next0, next_fixed, new_j_h)
                 ELSE split_2(F, ir, jr, front, new_j_h),
                 compute_whole_range(F, ir, j_range_rounded, front))

\* compute_next_block without trace: the single front is updated in place.
compute_next_block_cost(F, ir, jr) ==
    LET j_range_rounded == round(jr)
        front   == last_front(F)
        top_val == index(front, j_range_rounded[1])
        bot_val == index(front, j_range_rounded[2])
        r       == compute_columns(ir, j_range_rounded[1],
                                   Slice(front.v, j_range_rounded[1], j_range_rounded[2]),
                                   F.h, "None")
        next_front == [front EXCEPT !.v = Splice(front.v, j_range_rounded[1], r.v),
                                    !.i = ir[2],
                                    !.j_range = jr,
                                    !.top_val = top_val + (ir[2] - ir[1]),
                                    !.bot_val = bot_val + r.bottom_delta]
    IN  IF ir[1] # F.i_range[2] THEN Panic(F, "assert i_range.0 == self.i_range.1")
        ELSE IF j_range_rounded[1] > j_range_rounded[2]
                \/ j_range_rounded[1] < 0
                \/ j_range_rounded[2] > NumWords * W
        THEN Panic(F, "range out of bounds of the profile")
        ELSE IF ~index_asserts(front, j_range_rounded[1]) THEN Panic(F, "assert in index")
        ELSE [F EXCEPT !.i_range = <<F.i_range[1], ir[2]>>,
                       !.fronts = [F.fronts EXCEPT ![F.last_front_idx + 1] = next_front]]

\* compute_next_block that does not widen j_range to the range the column
\* had before, and leaves out the last row of a range of several rows.
compute_next_block_narrow(F, ir, j_range) ==
    LET jr == JRange(j_range[1], Max2(j_range[1], j_range[2] - 1))
    IN  IF trace /\ ~params.sparse THEN fill_block(F, ir, jr)
        ELSE IF trace THEN compute_next_block_sparse(F, ir, jr)
        ELSE compute_next_block_cost(F, ir, jr)

compute_next_block(F, ir, j_range) ==
    LET has_next == F.last_front_idx + 1 < Len(F.fronts)
        next_front == F.fronts[F.last_front_idx + 2]
        jr == IF has_next
              THEN JRange(Min2(j_range[1], next_front.j_range[1]),
                          Max2(j_range[2], next_front.j_range[2]))
              ELSE j_range
    IN  IF trace /\ ~params.sparse THEN fill_block(F, ir, jr)
        ELSE IF trace THEN compute_next_block_sparse(F, ir, jr)
        ELSE compute_next_block_cost(F, ir, jr)

\* A setter that forgets the range stored before and keeps only the first
\* row of the new one.
set_last_front_fixed_j_range_first(F, fixed_j_range) ==
    IF ~IsSome(fixed_j_range) THEN F
    ELSE LET r == Unwrap(fixed_j_range)
         IN  [F EXCEPT !.fronts[F.last_front_idx + 1].fixed_j_range =
                           Some(JRange(r[1], Min2(r[1], r[2])))]

\* The union of the stored range and the new one.  The function asserts
\* that the new range is Some (bitpacking.rs 723), while align_for_bounded_dist
\* of nw.rs hands it None in every domain but A*; here the call with None
\* leaves the stored range as it is.
set_last_front_fixed_j_range(F, fixed_j_range) ==
    IF ~IsSome(fixed_j_range) THEN F
    ELSE LET old    == last_front(F).fixed_j_range
             merged == IF IsSome(old)
                       THEN JRange(Min2(Unwrap(old)[1], Unwrap(fixed_j_range)[1]),
                                   Max2(Unwrap(old)[2], Unwrap(fixed_j_range)[2]))
                       ELSE Unwrap(fixed_j_range)
         IN  [F EXCEPT !.fronts[F.last_front_idx + 1].fixed_j_range = Some(merged)]

\* ------------------------------------------------------------------------
\* NWInstance: the row range of a block and the range of fixed rows
\* ------------------------------------------------------------------------
\* A range, or the assertion that failed while computing it.
Ranged(r, err) == [r |-> r, err |-> err]

\* The closure f of j_range: a lower bound of f(v) from the value gu at u.
f_lower(u, gu, v) == gu + extend_cost(u, v) + h_of(nw.heuristic, v)

\* The assertion of f: v is on or below the diagonal of u.
below_diagonal(u, v) == v[2] - u[2] >= v[1] - u[1]

\* sparse_h, first loop: down while in scope, right (by jumps) while not.
RECURSIVE sparse_right(_, _, _, _, _)
sparse_right(u, gu, fm, ie, v) ==
    IF ~(v[1] <= ie /\ v[2] < m) THEN Ranged(v, "")
    ELSE IF ~below_diagonal(u, v) THEN Ranged(v, "f: v above the diagonal of u")
    ELSE LET fv == f_lower(u, gu, v)
         IN  IF fv <= fm THEN sparse_right(u, gu, fm, ie, <<v[1], v[2] + 1>>)
             ELSE sparse_right(u, gu, fm, ie,
                               <<v[1] + DivCeil(fv - fm, 2 * min_del_extend), v[2]>>)

\* sparse_h, second loop: in column ie, up until in scope.
RECURSIVE sparse_up(_, _, _, _)
sparse_up(u, gu, fm, v) ==
    IF v[2] < 0 \/ v[2] = m THEN Ranged(v, "")
    ELSE IF ~below_diagonal(u, v) THEN Ranged(v, "f: v above the diagonal of u")
    ELSE LET fv == f_lower(u, gu, v)
         IN  IF fv <= fm THEN Ranged(v, "")
             ELSE sparse_up(u, gu, fm,
                            <<v[1], v[2] - DivCeil(fv - fm, 2 * min_ins_extend)>>)

\* Without sparse_h, the inner loop: down while the cell is in scope.
RECURSIVE dense_down(_, _, _, _)
dense_down(u, gu, fm, v) ==
    IF ~(v[2] <= m) THEN Ranged(v, "")
    ELSE IF ~below_diagonal(u, v) THEN Ranged(v, "f: v above the diagonal of u")
    ELSE IF f_lower(u, gu, v) <= fm THEN dense_down(u, gu, fm, <<v[1], v[2] + 1>>)
    ELSE Ranged(v, "")

\* Without sparse_h, the outer loop: one column at a time towards ie.
RECURSIVE dense_right(_, _, _, _, _)
dense_right(u, gu, fm, ie, v) ==
    IF ~(v[1] < ie) THEN Ranged(v, "")
    ELSE LET d == dense_down(u, gu, fm, <<v[1] + 1, v[2] + 2>>)
         IN  IF d.err # "" THEN d
             ELSE dense_right(u, gu, fm, ie, <<d.r[1], d.r[2] - 1>>)

\* j_range, Domain::Astar.  The fixed range of the front before the first
\* column is read as JRange(-1, -1).
j_range_astar(ir, fm, prev) ==
    LET fixed == IF ir[1] < 0 THEN JRange(-1, -1) ELSE Unwrap(prev.fixed_j_range)
        u     == <<ir[1], fixed[2]>>
        gu    == IF ir[1] < 0 THEN 0 ELSE index(prev, fixed[2])
        v0    == <<u[1] + 1, Min2(u[2] + 1 + nw.block_width, m)>>
        r1    == sparse_right(u, gu, fm, ir[2], v0)
        r2    == sparse_up(u, gu, fm, <<ir[2], r1.r[2]>>)
        rs    == IF r1.err # "" THEN r1 ELSE r2
        rd    == dense_right(u, gu, fm, ir[2], u)
        res   == IF nw.sparse_h THEN rs ELSE rd
    IN  IF ir[1] >= 0 /\ ~IsSome(prev.fixed_j_range)
        THEN Ranged(JRange(0, -1), "With A* Domain, fixed_j_range should always be set.")
        ELSE IF fixed[1] > fixed[2] THEN Ranged(fixed, "")
        ELSE IF ir[1] >= 0 /\ ~index_asserts(prev, fixed[2])
        THEN Ranged(JRange(0, -1), "assert in index")
        ELSE IF res.err # "" THEN Ranged(JRange(0, -1), res.err)
        ELSE Ranged(JRange(Max2(fixed[1], 0), Min2(res.r[2], m)), "")

\* j_range: the rows to compute for the block of columns ir under bound fm.
j_range(ir, fm, prev) ==
    IF ~IsSome(fm) \/ nw.domain = "Full" THEN Ranged(JRange(0, m), "")
    ELSE IF nw.domain = "GapStart"
    THEN LET range == JRange(-max_del_for_cost(Unwrap(fm)), max_ins_for_cost(Unwrap(fm)))
         IN  Ranged(JRange(Max2(ir[1] + 1 + range[1], 0), Min2(ir[2] + range[2], m)), "")
    ELSE IF nw.domain = "GapGap"
    THEN LET d == m - n
             s == Unwrap(fm) - gap_cost(<<0, 0>>, <<n, m>>)
             extra_diagonals == TDiv(s, min_ins_extend + min_del_extend)
             range == JRange(Min2(d, 0) - extra_diagonals, Max2(d, 0) + extra_diagonals)
         IN  Ranged(JRange(Max2(ir[1] + 1 + range[1], 0), Min2(ir[2] + range[2], m)), "")
    ELSE j_range_astar(ir, Unwrap(fm), prev)

\* fixed_j_range, first loop: the first row from start on with f <= f_max.
RECURSIVE fixed_start(_, _, _, _, _)
fixed_start(i, fm, front, start, end) ==
    IF ~(start <= end) THEN Ranged(JRange(start, end), "")
    ELSE IF ~index_asserts(front, start) THEN Ranged(JRange(start, end), "assert in index")
    ELSE LET f == index(front, start) + h_of(nw.heuristic, <<i, start>>)
         IN  IF f <= fm THEN Ranged(JRange(start, end), "")
             ELSE fixed_start(i, fm, front,
                              start + (IF nw.sparse_h
                                       THEN DivCeil(f - fm, 2 * min_ins_extend) ELSE 1),
                              end)

\* fixed_j_range, second loop: the last row up to end with f <= f_max.
RECURSIVE fixed_end(_, _, _, _, _)
fixed_end(i, fm, front, start, end) ==
    IF ~(end >= start) THEN Ranged(JRange(start, end), "")
    ELSE IF ~index_asserts(front, end) THEN Ranged(JRange(start, end), "assert in index")
    ELSE LET f == index(front, end) + h_of(nw.heuristic, <<i, end>>)
         IN  IF f <= fm THEN Ranged(JRange(start, end), "")
             ELSE fixed_end(i, fm, front, start,
                            end - (IF nw.sparse_h
                                   THEN DivCeil(f - fm, 2 * min_ins_extend) ELSE 1))

\* fixed_j_range: Some(range of rows of the front with f <= f_max) in the A*
\* domain with a bound, None otherwise.
fixed_j_range(i, fm, front) ==
    IF nw.domain # "Astar" \/ ~IsSome(fm) THEN Ranged(None, "")
    ELSE LET s == fixed_start(i, Unwrap(fm), front, front.j_range[1], front.j_range[2])
             e == fixed_end(i, Unwrap(fm), front, s.r[1], s.r[2])
         IN  IF s.err # "" THEN Ranged(None, s.err)
             ELSE IF e.err # "" THEN Ranged(None, e.err)
             ELSE Ranged(Some(e.r), "")

\* ------------------------------------------------------------------------
\* Traceback
\* ------------------------------------------------------------------------
\* CIGAR operations: "M" Match, "X" Sub, "I" Ins, "D" Del.
\* The result of parent: the parent state, the operations of the edge (one
\* operation, or a run of matches), the cost left, and the panic, if any.
Edge(to, ops, gval, err) == [st |-> to, ops |-> ops, g |-> gval, err |-> err]

\* A run up the diagonal that does not compare the characters.
RECURSIVE match_run_blind(_, _, _, _, _)
match_run_blind(i, j, lo, bs, cnt) ==
    IF ~(i > 0 /\ j > lo) THEN <<i, j, cnt>>
    ELSE IF i - 1 = bs THEN <<i - 1, j - 1, cnt + 1>>
    ELSE match_run_blind(i - 1, j - 1, lo, bs, cnt + 1)

\* The greedy run of matches of parent: up the diagonal from <<i, j>> while
\* the characters match, to row lo or column bs at the latest.
RECURSIVE match_run(_, _, _, _, _)
match_run(i, j, lo, bs, cnt) ==
    IF ~(i > 0 /\ j > lo) THEN <<i, j, cnt>>
    ELSE IF ~is_match(i - 1, j - 1) THEN <<i, j, cnt>>
    ELSE IF i - 1 = bs THEN <<i - 1, j - 1, cnt + 1>>
    ELSE match_run(i - 1, j - 1, lo, bs, cnt + 1)

\* parent: the edge by which the traceback leaves `to`, in the priority
\* Match, Ins, Del, Sub.
parent(F, to, gval, bs) ==
    LET front == last_front(F)
        prev_front == F.fronts[F.last_front_idx]
        run   == match_run(to[1], to[2],
                           IF to[1] > 0 THEN round(prev_front.j_range)[1] ELSE 0, bs, 0)
        g1    == gval - 1
        vd    == get_diff(front, to[2] - 1)
        hd    == (g1 + 1) - index(prev_front, to[2])
        pd    == get_diff(prev_front, to[2] - 1)
    IN  IF front.i # to[1] THEN Edge(to, <<>>, gval, "assert front.i == st.i")
        ELSE IF to[1] > 0 /\ F.last_front_idx = 0
        THEN Edge(to, <<>>, gval, "attempt to subtract with overflow")
        ELSE IF to[1] > 0 /\ prev_front.i # to[1] - 1
        THEN Edge(to, <<>>, gval, "assert prev_front.i == st.i - 1")
        ELSE IF run[3] > 0
        THEN Edge(<<run[1], run[2]>>, [k \in 1..run[3] |-> "M"], gval, "")
        ELSE IF vd = Some(1) THEN Edge(<<to[1], to[2] - 1>>, <<"I">>, g1, "")
        ELSE IF to[1] = 0
        THEN Edge(to, <<>>, g1, "No vertical edge, but also no previous front")
        ELSE IF ~index_asserts(prev_front, to[2]) THEN Edge(to, <<>>, g1, "assert in index")
        ELSE IF hd = 1 THEN Edge(<<to[1] - 1, to[2]>>, <<"D">>, g1, "")
        ELSE IF ~IsSome(pd) THEN Edge(to, <<>>, g1, "called Option::unwrap() on a None value")
        ELSE IF Unwrap(pd) + hd = 1 THEN Edge(<<to[1] - 1, to[2] - 1>>, <<"X">>, g1, "")
        ELSE Edge(to, <<>>, g1, "ERROR: PARENT NOT FOUND IN TRACEBACK")

\* The loop at the head of a trace iteration: drop fronts right of column i.
RECURSIVE pop_fronts_after(_, _)
pop_fronts_after(F, i) ==
    IF F.err # "" THEN F
    ELSE IF last_front(F).i > i THEN pop_fronts_after(pop_last_front(F), i)
    ELSE F

\* pop_last_front, k times.
RECURSIVE pop_fronts(_, _)
pop_fronts(F, k) ==
    IF F.err # "" \/ k = 0 THEN F ELSE pop_fronts(pop_last_front(F), k - 1)

\* The loop of the sparse trace: fill the columns of the block on the
\* window of `height` rows ending in row to.j, and double the window until
\* the value at `to` is the traced cost.  Once the window is the whole range
\* every further round computes the same, and the loop ends with the height
\* overflowing.
RECURSIVE refill_block(_, _, _, _, _, _)
refill_block(F, ir, jr, to, gval, height) ==
    LET window == JRange(Max2(jr[1], jr[2] - height), jr[2])
        F1     == fill_block(F, ir, window)
    IN  IF F1.err # "" THEN F1
        ELSE IF ~index_asserts(last_front(F1), to[2]) THEN Panic(F1, "assert in index")
        ELSE IF index(last_front(F1), to[2]) = gval THEN F1
        ELSE IF window[1] = jr[1] THEN Panic(F1, "attempt to multiply with overflow")
        ELSE refill_block(pop_fronts(F1, ir[2] - ir[1]), ir, jr, to, gval, height * 2)

\* The part of a trace iteration before parent: with sparse fronts, the
\* columns of the block left of `to` are computed again.  Returns the fronts
\* and the block start.
trace_refill(F, to, gval, bs) ==
    LET F0    == pop_fronts_after(F, to[1])
        front == last_front(F0)
        prev_front == F0.fronts[F0.last_front_idx]
        ir    == <<prev_front.i, front.i>>
        jr    == JRange(front.j_range[1], to[2])
    IN  IF F0.err # "" THEN <<F0, bs>>
        ELSE IF ~(params.sparse /\ to[1] > 0) THEN <<F0, bs>>
        ELSE IF F0.last_front_idx = 0 THEN <<Panic(F0, "attempt to subtract with overflow"), bs>>
        ELSE IF front.i # to[1] THEN <<Panic(F0, "assert front.i == to.i"), bs>>
        ELSE IF ~(prev_front.i < to[1] - 1) THEN <<F0, bs>>
        ELSE IF ~(front.j_range[1] <= to[2] /\ to[2] <= front.j_range[2])
        THEN <<Panic(F0, "assert to.j in front.j_range"), prev_front.i>>
        ELSE <<refill_block(pop_last_front(F0), ir, jr, to, gval,
                            TDiv((ir[2] - ir[1]) * 5, 4)), prev_front.i>>

\* The asserts at the head of trace.
trace_asserts(F, to) ==
    IF ~trace THEN "assert self.trace"
    ELSE IF F.fronts[Len(F.fronts)].i # to[1] THEN "assert fronts.last().i == to.i"
    ELSE IF ~index_asserts(last_front(F), to[2]) THEN "assert in index"
    ELSE ""

\* Whether a sequence of operations is an alignment of a and b of the given
\* cost: it consumes exactly a and b, matches are on equal characters, and
\* it has `cost` operations other than matches.
RECURSIVE valid_cigar(_, _, _, _, _)
valid_cigar(ops, k, i, j, cost) ==
    IF k > Len(ops) THEN i = n /\ j = m /\ cost = 0
    ELSE CASE ops[k] = "M" -> /\ is_match(i, j)
                              /\ valid_cigar(ops, k + 1, i + 1, j + 1, cost)
           [] ops[k] = "X" -> /\ i < n /\ j < m
                              /\ valid_cigar(ops, k + 1, i + 1, j + 1, cost - 1)
           [] ops[k] = "I" -> j < m /\ valid_cigar(ops, k + 1, i, j + 1, cost - 1)
           [] ops[k] = "D" -> i < n /\ valid_cigar(ops, k + 1, i + 1, j, cost - 1)

\* Vec::reverse.
Reverse(s) == [k \in 1..Len(s) |-> s[Len(s) + 1 - k]]

\* ------------------------------------------------------------------------
\* The band-doubling driver
\* ------------------------------------------------------------------------
\* BLOCKSIZE of the bit-packed fronts: one word of rows.
BLOCKSIZE == W

\* band_doubling_params: <<start_f, start_increment>>.
band_doubling_params ==
    LET x == gap_cost(<<0, 0>>, <<n, m>>)
        p == CASE nw.start = "Zero" -> <<0, 1>>
               [] nw.start = "Gap"  -> <<x, x>>
               [] nw.start = "H0"   -> <<h_of(nw.heuristic, <<0, 0>>), 1>>
    IN  <<p[1], Max2(p[2], BLOCKSIZE)>>

\* The bound exponential_search tries after bound s failed; the factor is
\* the fraction factor[1] / factor[2].
next_bound(factor, s) == Max2(DivCeil(factor[1] * s, factor[2]), 1)

\* A test that accepts whatever cost f returned.
found_any(r, s) == IsSome(r)

\* The test of exponential_search on what f returned at bound s.
found(r, s) == IsSome(r) /\ Unwrap(r)[1] <= s

\* ------------------------------------------------------------------------
\* The configurations
\* ------------------------------------------------------------------------
\* The front configurations align is called with on the same A and B, in
\* order: cost only, trace with a front per column, trace with a front per
\* block, and the latter with incremental doubling.
Configs ==
    << [trace |-> FALSE, sparse |-> TRUE,  incremental_doubling |-> FALSE],
       [trace |-> TRUE,  sparse |-> FALSE, incremental_doubling |-> FALSE],
       [trace |-> TRUE,  sparse |-> TRUE,  incremental_doubling |-> FALSE],
       [trace |-> TRUE,  sparse |-> TRUE,  incremental_doubling |-> TRUE] >>

\* The growth factor of Strategy::band_doubling().
Factor == <<2, 1>>

NW(domain, heuristic, strategy, start, block_width, sparse_h) ==
    [domain |-> domain, heuristic |-> heuristic, strategy |-> strategy, start |-> start,
     factor |-> Factor, block_width |-> block_width, sparse_h |-> sparse_h]

\* The supported configurations of NW.
NWs ==
    UNION {
        {NW("Full", "Zero", "None", "Zero", bw, TRUE)}
        \cup {NW("GapStart", "Zero", "BandDoubling", s, bw, TRUE) : s \in {"Zero", "Gap"}}
        \cup {NW("GapGap", "Zero", "BandDoubling", "Gap", bw, TRUE)}
        \cup {NW("Astar", hh, "BandDoubling", "H0", bw, sh) : hh \in Heuristics, sh \in BOOLEAN}
        : bw \in 1..MaxBlockWidth }

\* The outcome of one align call: the cost and the CIGAR, or the panic.
Outcome(cost, cig, err) == [cost |-> cost, cigar |-> cig, err |-> err]

vars == <<a, b, nw, params, trace, fronts, last_front_idx, i_range, h, f_max, pc, st, g,
          block_start, cigar, dist, ret, tried, differ, results>>

\* The BitFronts object of the state.
Self == [fronts |-> fronts, last_front_idx |-> last_front_idx, i_range |-> i_range,
         h |-> h, err |-> "", differ |-> FALSE]

Store(F) ==
    /\ fronts' = F.fronts
    /\ last_front_idx' = F.last_front_idx
    /\ i_range' = F.i_range
    /\ h' = F.h
    /\ differ' = (differ \/ F.differ)

\* A panic ends the align call.
Fail(msg) ==
    /\ pc' = "done"
    /\ results' = Append(results, Outcome(-1, None, msg))
    /\ ret' = None
    /\ UNCHANGED <<a, b, nw, params, trace, fronts, last_front_idx, i_range, h, f_max,
                   st, g, block_start, cigar, dist, tried, differ>>

Init ==
    /\ a \in {x \in SeqsUpTo(Alphabet, MaxLenA) : Len(x) = 0 \/ x[1] = 0}
    /\ b \in SeqsUpTo(Alphabet, MaxLenB)
    /\ nw \in NWs
    /\ params = [sparse |-> Configs[1].sparse,
                 incremental_doubling |-> Configs[1].incremental_doubling]
    /\ trace = Configs[1].trace
    /\ fronts = <<>>
    /\ last_front_idx = 0
    /\ i_range = <<-1, 0>>
    /\ h = <<>>
    /\ f_max = None
    /\ pc = "start"
    /\ st = <<0, 0>>
    /\ g = 0
    /\ block_start = 0
    /\ cigar = <<>>
    /\ dist = 0
    /\ ret = None
    /\ tried = <<>>
    /\ differ = FALSE
    /\ results = <<>>

\* The largest bound the driver may grow from.
MaxBound == 16

\* align_for_bounded_dist returns r to exponential_search.
Return(r) ==
    /\ ret' = r
    /\ pc' = "searched"
    /\ UNCHANGED <<a, b, nw, params, trace, fronts, last_front_idx, i_range, h, f_max,
                   st, g, block_start, cigar, dist, tried, differ, results>>

\* cost_or_align up to the first call of align_for_bounded_dist: new fronts
\* and the start bound (no bound with Strategy::None).
cost_or_align ==
    /\ pc = "start"
    /\ Store(new)
    /\ f_max' = IF nw.strategy = "BandDoubling" THEN Some(band_doubling_params[1]) ELSE None
    /\ tried' = <<>>
    /\ pc' = "bounded"
    /\ UNCHANGED <<a, b, nw, params, trace, st, g, block_start, cigar, dist, ret, results>>

\* align_for_bounded_dist up to its loop: the range of the first column
\* and the first front.
align_for_bounded_dist ==
    /\ pc = "bounded"
    /\ \E r \in {j_range(<<-1, 0>>, f_max, BitFront_default)} :
           IF r.err # "" THEN Fail(r.err)
           ELSE IF is_empty(r.r) THEN Return(None)
           ELSE \E F1 \in {init(Self, r.r)} :
               IF F1.err # "" THEN Fail(F1.err)
               ELSE /\ Store(F1)
                    /\ pc' = "blocks"
                    /\ UNCHANGED <<a, b, nw, params, trace, f_max, st, g, block_start,
                                   cigar, dist, ret, tried, results>>

\* One iteration of the loop of align_for_bounded_dist: the next block of
\* block_width columns.
next_block ==
    /\ pc = "blocks"
    /\ i_range[2] < n
    /\ \E ir \in {<<i_range[2], Min2(i_range[2] + nw.block_width, n)>>} :
       \E r \in {j_range(ir, f_max, last_front(Self))} :
           IF r.err # "" THEN Fail(r.err)
           ELSE IF is_empty(r.r) THEN Return(None)
           ELSE \E F1 \in {compute_next_block(Self, ir, r.r)} :
               IF F1.err # "" THEN Fail(F1.err)
               ELSE \E fx \in {fixed_j_range(ir[2], f_max, last_front(F1))} :
                   IF fx.err # "" THEN Fail(fx.err)
                   ELSE /\ Store(set_last_front_fixed_j_range(F1, fx.r))
                        /\ UNCHANGED <<a, b, nw, params, trace, f_max, pc, st, g,
                                       block_start, cigar, dist, ret, tried, results>>

\* align_for_bounded_dist after its loop: the value at the target, and the
\* head of trace when a path is to be returned.
target ==
    /\ pc = "blocks"
    /\ i_range[2] >= n
    /\ LET d == get(last_front(Self), m)
           e == trace_asserts(Self, <<n, m>>)
       IN  IF ~IsSome(d) THEN Return(None)
           ELSE IF ~(trace /\ Unwrap(d) <= (IF IsSome(f_max) THEN Unwrap(f_max) ELSE CostMax))
           THEN Return(Some(<<Unwrap(d), None>>))
           ELSE IF e # "" THEN Fail(e)
           ELSE /\ dist' = Unwrap(d)
                /\ st' = <<n, m>>
                /\ g' = index(last_front(Self), m)
                /\ block_start' = n - 1
                /\ cigar' = <<>>
                /\ pc' = "trace"
                /\ UNCHANGED <<a, b, nw, params, trace, fronts, last_front_idx, i_range, h,
                               f_max, ret, tried, differ, results>>

\* One iteration of the loop of trace: drop the fronts right of `to`, fill
\* the block again with sparse fronts, and follow the parent edge.
trace_step ==
    /\ pc = "trace"
    /\ st # <<0, 0>>
    /\ \E rf \in {trace_refill(Self, st, g, block_start)} :
           IF rf[1].err # "" THEN Fail(rf[1].err)
           ELSE \E e \in {parent(rf[1], st, g, rf[2])} :
               IF e.err # "" THEN Fail(e.err)
               ELSE /\ Store(rf[1])
                    /\ st' = e.st
                    /\ g' = e.g
                    /\ block_start' = rf[2]
                    /\ cigar' = cigar \o e.ops
                    /\ UNCHANGED <<a, b, nw, params, trace, f_max, pc, dist, ret, tried,
                                   results>>

\* The end of trace: the path is reversed and returned with the distance.
trace_end ==
    /\ pc = "trace"
    /\ st = <<0, 0>>
    /\ IF g # 0 THEN Fail("assertion failed: g == 0")
       ELSE Return(Some(<<dist, Some(Reverse(cigar))>>))

\* exponential_search: f returned a cost within the bound, which is the
\* result of align.  With Strategy::None the single call is unwrapped.
search_return ==
    /\ pc = "searched"
    /\ IF nw.strategy = "None"
       THEN IF ~IsSome(ret) THEN Fail("called Option::unwrap() on a None value")
            ELSE /\ results' = Append(results, Outcome(Unwrap(ret)[1], Unwrap(ret)[2], ""))
                 /\ pc' = "done"
                 /\ UNCHANGED <<a, b, nw, params, trace, fronts, last_front_idx, i_range, h,
                                f_max, st, g, block_start, cigar, dist, ret, tried, differ>>
       ELSE /\ found(ret, Unwrap(f_max))
            /\ tried' = Append(tried, [s |-> Unwrap(f_max), ret |-> ret])
            /\ results' = Append(results, Outcome(Unwrap(ret)[1], Unwrap(ret)[2], ""))
            /\ pc' = "done"
            /\ UNCHANGED <<a, b, nw, params, trace, fronts, last_front_idx, i_range, h,
                           f_max, st, g, block_start, cigar, dist, ret, differ>>

\* exponential_search: f failed at the bound, the next bound is tried.
search_next ==
    /\ pc = "searched"
    /\ nw.strategy = "BandDoubling"
    /\ ~found(ret, Unwrap(f_max))
    /\ Unwrap(f_max) <= MaxBound
    /\ tried' = Append(tried, [s |-> Unwrap(f_max), ret |-> ret])
    /\ f_max' = Some(next_bound(nw.factor, Unwrap(f_max)))
    /\ pc' = "bounded"
    /\ UNCHANGED <<a, b, nw, params, trace, fronts, last_front_idx, i_range, h,
                   st, g, block_start, cigar, dist, ret, differ, results>>

\* The next align call on the same sequences, with the next front
\* configuration.
next_config ==
    /\ pc = "done"
    /\ Len(results) < Len(Configs)
    /\ params' = [sparse |-> Configs[Len(results) + 1].sparse,
                  incremental_doubling |-> Configs[Len(results) + 1].incremental_doubling]
    /\ trace' = Configs[Len(results) + 1].trace
    /\ fronts' = <<>>
    /\ last_front_idx' = 0
    /\ i_range' = <<-1, 0>>
    /\ h' = <<>>
    /\ f_max' = None
    /\ pc' = "start"
    /\ st' = <<0, 0>>
    /\ g' = 0
    /\ block_start' = 0
    /\ cigar' = <<>>
    /\ dist' = 0
    /\ ret' = None
    /\ tried' = <<>>
    /\ UNCHANGED <<a, b, nw, differ, results>>

Next ==
    \/ cost_or_align
    \/ align_for_bounded_dist
    \/ next_block
    \/ target
    \/ trace_step
    \/ trace_end
    \/ search_return
    \/ search_next
    \/ next_config

Spec == Init /\ [][Next]_vars

\* ------------------------------------------------------------------------
\* Properties of the bit-packed engine
\* ------------------------------------------------------------------------
\* The outcome of the align call that just ended.
LastResult == results[Len(results)]

\* The align call that just ended returned (it did not panic).
Returned == pc = "done" /\ Len(results) > 0 /\ LastResult.err = ""

\* align_for_bounded_dist has just returned to exponential_search.
BoundedReturned == pc = "searched" /\ IsSome(f_max)

\* C1: every cost that align returns is the unit-cost Levenshtein distance
\* of A and B, in every supported configuration.
C1_CostIsLevenshtein ==
    \A k \in 1..Len(results) : results[k].err = "" => results[k].cost = Lev(a, b)

\* C2: whenever align returns a CIGAR, its operations consume exactly A and
\* B, every Match is on equal characters, and the number of Sub, Ins and Del
\* operations is the returned cost.
C2_CigarValid ==
    \A k \in 1..Len(results) :
        IsSome(results[k].cigar)
            => valid_cigar(Unwrap(results[k].cigar), 1, 0, 0, results[k].cost)

\* A CIGAR with a match and at least two edits has been returned after the
\* fronts were reused by a second bound.
C2_Witness ==
    /\ Returned
    /\ IsSome(LastResult.cigar)
    /\ LastResult.cost >= 2
    /\ \E k \in 1..Len(Unwrap(LastResult.cigar)) : Unwrap(LastResult.cigar)[k] = "M"
    /\ Len(tried) >= 2

\* C3: a single-shot run of align_for_bounded_dist on fresh fronts with a
\* bound f_max >= the edit distance returns Some(edit distance), in the
\* domains GapStart, GapGap and Astar.
C3_SingleShotExact ==
    (/\ BoundedReturned
     /\ Len(tried) = 0
     /\ nw.domain \in {"GapStart", "GapGap", "Astar"}
     /\ Unwrap(f_max) >= Lev(a, b))
        => (IsSome(ret) /\ Unwrap(ret)[1] = Lev(a, b))

\* C4: a run of align_for_bounded_dist with a bound f_max below the edit
\* distance returns None or a cost greater than f_max, also on fronts reused
\* from earlier bounds.
C4_BelowBound ==
    (BoundedReturned /\ Unwrap(f_max) < Lev(a, b))
        => (~IsSome(ret) \/ Unwrap(ret)[1] > Unwrap(f_max))

\* A run on reused fronts with a bound below the distance returned a cost.
C4_Witness ==
    /\ BoundedReturned
    /\ Unwrap(f_max) < Lev(a, b)
    /\ Len(tried) >= 1
    /\ IsSome(ret)
    /\ Unwrap(ret)[1] > Unwrap(f_max)

\* C5: exponential_search returns only at a bound s where f returned a cost
\* <= s; at every bound tried before, f returned None or a cost above that
\* bound; and what it returns is what f produced at the final bound.
C5_SearchReturn ==
    \A k \in 1..Len(tried) :
        IF k = Len(tried) /\ Returned
        THEN /\ IsSome(tried[k].ret)
             /\ Unwrap(tried[k].ret)[1] <= tried[k].s
             /\ tried[k].s = Unwrap(f_max)
             /\ LastResult.cost = Unwrap(tried[k].ret)[1]
             /\ LastResult.cigar = Unwrap(tried[k].ret)[2]
        ELSE ~IsSome(tried[k].ret) \/ Unwrap(tried[k].ret)[1] > tried[k].s

\* The search returned at its third bound or later, after f had returned a
\* cost above an earlier bound.
C5_Witness ==
    /\ Returned
    /\ Len(tried) >= 3
    /\ \E k \in 1..(Len(tried) - 1) : IsSome(tried[k].ret)

\* C6: after a failed iteration at bound s the next bound is
\* max(ceil(factor * s), s + BLOCKSIZE).
C6_NextBound ==
    (pc = "bounded" /\ Len(tried) >= 1)
        => LET s == tried[Len(tried)].s
           IN  Unwrap(f_max) = Max2(DivCeil(nw.factor[1] * s, nw.factor[2]), s + BLOCKSIZE)

\* C7: the bounds exponential_search tries are strictly increasing, and the
\* search returns at the first bound >= the edit distance at the latest: f
\* fails only at bounds below the edit distance.
C7_ReturnsAtFirstBound ==
    \A k \in 1..Len(tried) :
        /\ k > 1 => tried[k - 1].s < tried[k].s
        /\ ~(k = Len(tried) /\ Returned) => tried[k].s < Lev(a, b)

\* C9: with incremental doubling align returns the same cost and a CIGAR of
\* the same length as without (and panics exactly when the other does), and
\* no split computation of compute_next_block differs from recomputing the
\* whole rounded range with HMode::None.
C9_IncrementalSame ==
    /\ ~differ
    /\ Len(results) = 4
        => /\ results[4].cost = results[3].cost
           /\ results[4].err = results[3].err
           /\ IsSome(results[4].cigar) = IsSome(results[3].cigar)
           /\ IsSome(results[4].cigar)
                => Len(Unwrap(results[4].cigar)) = Len(Unwrap(results[3].cigar))

\* align with incremental doubling returned at its third bound or later,
\* with a block computed by a split (its front has a j_h).
C9_Witness ==
    /\ Returned
    /\ Len(results) = 4
    /\ Len(tried) >= 3
    /\ LastResult.cost >= 2
    /\ \E k \in 1..Len(fronts) : IsSome(fronts[k].j_h)

Forward == pc = "blocks" /\ Len(fronts) > last_front_idx

\* C11: for every front of the forward computation and every row j of its
\* j_range, index(j) is the edit distance of the first i characters of A and
\* the first j characters of B.
C11_IndexIsDistance ==
    Forward =>
        \A k \in 1..(last_front_idx + 1) :
            \A j \in fronts[k].j_range[1]..fronts[k].j_range[2] :
                index(fronts[k], j) = Lev(SubSeq(a, 1, fronts[k].i), SubSeq(b, 1, j))

\* check_top_bot_val: the stored deltas of the rounded range lead from
\* top_val to bot_val (and the range lies within the stored vector).
check_top_bot_val(front) ==
    LET rounded == round(front.j_range)
    IN  /\ rounded[1] - front.offset >= 0
        /\ rounded[2] - front.offset <= Len(front.v)
        /\ front.top_val
             + SumRange(front.v, rounded[1] - front.offset, rounded[2] - front.offset)
           = front.bot_val

\* C12: after init and after every compute_next_block or fill_block call,
\* every front up to the last one satisfies top_val + (the sum of the deltas
\* of its rounded range) = bot_val.
C12_TopBotVal ==
    Len(fronts) > last_front_idx
        => \A k \in 1..(last_front_idx + 1) : check_top_bot_val(fronts[k])

\* Fronts reused by a later bound hold deltas other than +1, in a run with
\* trace.
C12_Witness ==
    /\ Forward
    /\ trace
    /\ Len(tried) >= 1
    /\ last_front_idx >= 2
    /\ \E k \in 1..Len(fronts[last_front_idx + 1].v) : fronts[last_front_idx + 1].v[k] # 1

\* The range outer contains the range inner.
contains(outer, inner) == outer[1] <= inner[1] /\ inner[2] <= outer[2]

\* A step of the forward computation (init, compute_next_block): a front
\* stored for a column that already has a front from an earlier bound gets a
\* j_range that contains the one stored before.
JRangeStep ==
    pc \in {"bounded", "blocks"}
        => \A k \in 1..Len(fronts) :
               (k <= Len(fronts') /\ fronts'[k].i = fronts[k].i)
                   => contains(fronts'[k].j_range, fronts[k].j_range)

FixedInside ==
    Len(fronts) > last_front_idx
        => \A k \in 1..(last_front_idx + 1) :
               IsSome(fronts[k].fixed_j_range)
                   => \/ is_empty(Unwrap(fronts[k].fixed_j_range))
                      \/ contains(fronts[k].j_range, Unwrap(fronts[k].fixed_j_range))

\* A step of the forward computation: a front stored for a column that
\* already has a front with a fixed range from an earlier bound has a fixed
\* range that contains it.
FixedStep ==
    pc \in {"bounded", "blocks"}
        => \A k \in 1..Len(fronts) :
               (/\ k <= Len(fronts')
                /\ fronts'[k].i = fronts[k].i
                /\ IsSome(fronts[k].fixed_j_range)
                /\ ~is_empty(Unwrap(fronts[k].fixed_j_range)))
                   => /\ IsSome(fronts'[k].fixed_j_range)
                      /\ contains(Unwrap(fronts'[k].fixed_j_range),
                                  Unwrap(fronts[k].fixed_j_range))

JhAsserts == {"j_h may only increase!", "assert new_j_h <= new_range.1",
              "assert new_range.0 <= new_j_h"}

\* In the forward computation every j_h of the fronts of the running call
\* is at most the rounded end of the front's row range, and no call ended
\* in an assertion on j_h.
JhInside ==
    /\ \A k \in 1..Len(results) : results[k].err \notin JhAsserts
    /\ Forward
         => \A k \in 1..(last_front_idx + 1) :
                IsSome(fronts[k].j_h)
                    => Unwrap(fronts[k].j_h) <= round(fronts[k].j_range)[2]

\* A step of the forward computation: a front stored for a column whose
\* front had a j_h has a j_h that is not smaller.
JhStep ==
    pc \in {"bounded", "blocks"}
        => \A k \in 1..Len(fronts) :
               (/\ k <= Len(fronts')
                /\ fronts'[k].i = fronts[k].i
                /\ IsSome(fronts[k].j_h))
                   => /\ IsSome(fronts'[k].j_h)
                      /\ Unwrap(fronts[k].j_h) <= Unwrap(fronts'[k].j_h)

\* C15: with incremental doubling the j_h of a column never decreases from
\* one bound to the next and stays within the rounded row range: the
\* assertion "j_h may only increase" never fails.
C15_JhGrows == []JhInside /\ [][JhStep]_vars

\* The next block is computed by a 3-range split that moves j_h up: the
\* front left from the earlier bound has a j_h above the start of its fixed
\* range and below the new j_h; the last block was computed by a split too.
C15_Witness ==
    /\ Forward
    /\ params.incremental_doubling
    /\ i_range[2] < n
    /\ last_front_idx >= 1
    /\ IsSome(fronts[last_front_idx + 1].j_h)
    /\ Len(fronts) > last_front_idx + 1
    /\ IsSome(fronts[last_front_idx + 1].fixed_j_range)
    /\ IsSome(fronts[last_front_idx + 2].fixed_j_range)
    /\ IsSome(fronts[last_front_idx + 2].j_h)
    /\ round_inward(Unwrap(fronts[last_front_idx + 2].fixed_j_range))[1]
         < Unwrap(fronts[last_front_idx + 2].j_h)
    /\ Unwrap(fronts[last_front_idx + 2].j_h)
         < round_inward(Unwrap(fronts[last_front_idx + 1].fixed_j_range))[2]

\* A block has just been computed in the A* domain with a bound: the last
\* front is the front of the block's last column.
AfterBlock ==
    /\ Forward
    /\ nw.domain = "Astar"
    /\ IsSome(f_max)
    /\ i_range[2] > 0
    /\ IsSome(last_front(Self).fixed_j_range)

\* C16: after every block every row j of the fixed_j_range stored for the
\* block's last column i has index(j) + h(i, j) <= f_max, every row and not
\* only the two ends, also after the merge with the range stored before.
C16_FixedRowsInBound ==
    AfterBlock =>
        \A j \in Unwrap(last_front(Self).fixed_j_range)[1]
                  ..Unwrap(last_front(Self).fixed_j_range)[2] :
            /\ index_asserts(last_front(Self), j)
            /\ index(last_front(Self), j) + h_of(nw.heuristic, <<i_range[2], j>>)
                   <= Unwrap(f_max)

\* C17: every run of the engine ends with a result or with "not found"; no
\* align call ends in an assertion or a panic of the fronts, the traceback
\* or the range computation.
C17_NoPanic == \A k \in 1..Len(results) : results[k].err = ""

\* The CIGAR of an alignment against an empty sequence: a deletion per
\* character of A when B is empty, an insertion per character of B when A
\* is empty.
GapCigar == [k \in 1..(n + m) |-> IF m = 0 THEN "D" ELSE "I"]

AfterInit == pc = "blocks" /\ i_range = <<-1, 0>> /\ last_front_idx = 0

\* C20: after every init call, in the first and in every later iteration,
\* with and without trace, the front of column 0 has top_val 0, vertical
\* deltas that are all +1, bot_val equal to the rounded end of its row range,
\* and a fixed_j_range equal to its j_range.
C20_FirstColumn ==
    AfterInit =>
        /\ Len(fronts) >= 1
        /\ fronts[1].i = 0
        /\ fronts[1].top_val = 0
        /\ \A k \in 1..Len(fronts[1].v) : fronts[1].v[k] = 1
        /\ fronts[1].bot_val = round(fronts[1].j_range)[2]
        /\ fronts[1].fixed_j_range = Some(fronts[1].j_range)

\* init ran in a later iteration of a cost-only call, on the single front
\* that held the last column of the iteration before.
C20_Witness ==
    /\ AfterInit
    /\ ~trace
    /\ Len(tried) >= 2
    /\ n > 0
    /\ fronts[1].j_range[2] > 0
    /\ fronts[1].j_range[2] < m

\* The panics of parent that mean that no edge was found for a state.
ParentPanics == {"called Option::unwrap() on a None value",
                 "No vertical edge, but also no previous front",
                 "ERROR: PARENT NOT FOUND IN TRACEBACK"}

\* The operations a step of the traceback pushed.
pushed_ops == SubSeq(cigar', Len(cigar) + 1, Len(cigar'))

\* The edge a traceback step took from st with cost g, given the front of
\* column st.i and the front before it: Match first (one or more equal
\* characters up the diagonal, cost unchanged), then Ins if the vertical
\* delta above st is +1, then Del if the value to the left is g - 1, then Sub.
TookByPriority(front, prev_front) ==
    IF /\ st[1] > 0
       /\ st[2] > round(prev_front.j_range)[1]
       /\ is_match(st[1] - 1, st[2] - 1)
    THEN /\ Len(pushed_ops) >= 1
         /\ \A k \in 1..Len(pushed_ops) : pushed_ops[k] = "M"
         /\ st' = <<st[1] - Len(pushed_ops), st[2] - Len(pushed_ops)>>
         /\ g' = g
    ELSE IF get_diff(front, st[2] - 1) = Some(1)
    THEN pushed_ops = <<"I">> /\ st' = <<st[1], st[2] - 1>> /\ g' = g - 1
    ELSE IF st[1] > 0 /\ index(prev_front, st[2]) = g - 1
    THEN pushed_ops = <<"D">> /\ st' = <<st[1] - 1, st[2]>> /\ g' = g - 1
    ELSE pushed_ops = <<"X">> /\ st' = <<st[1] - 1, st[2] - 1>> /\ g' = g - 1

\* A step of the traceback that found an edge took it by the priority.
ParentStep ==
    (pc = "trace" /\ st # <<0, 0>> /\ pc' = "trace")
        => TookByPriority(fronts'[last_front_idx' + 1],
                          fronts'[IF last_front_idx' > 0 THEN last_front_idx' ELSE 1])

\* A step of the traceback does not end in parent finding no edge.
ParentFinds ==
    (pc = "trace" /\ st # <<0, 0>> /\ pc' = "done")
        => results'[Len(results')].err \notin ParentPanics

\* The traceback takes its parents by the priority Match, Ins, Del, Sub.
C22_PriorityHolds == [][ParentStep]_vars

\* C22: every step of the traceback takes the parent by the priority Match,
\* Ins, Del, Sub, and for every state on the traced path one of the four
\* applies: parent never ends without an edge.
C22_ParentByPriority == [][ParentStep /\ ParentFinds]_vars

\* In the traceback g is the value of the current state in the front of its
\* column, when the fronts in use hold that column, and 0 at the start state.
GIsIndex ==
    pc = "trace" =>
        /\ \A k \in 1..(last_front_idx + 1) :
               fronts[k].i = st[1]
                   => /\ index_asserts(fronts[k], st[2])
                      /\ index(fronts[k], st[2]) = g
        /\ st = <<0, 0>> => g = 0

\* A step of the traceback leaves g as it is over a run of matches and
\* takes 1 off for an Ins, a Del or a Sub.
GStep ==
    (pc = "trace" /\ pc' = "trace")
        => g' = g - (IF pushed_ops # <<>> /\ pushed_ops[1] = "M" THEN 0 ELSE 1)

\* The traceback starts with g the value of the target in the last front.
GStart ==
    (pc = "blocks" /\ pc' = "trace")
        => g' = index(fronts[last_front_idx + 1], m) /\ st' = <<n, m>>

\* C23: during the traceback g is index(to.j) of the front of column to.i:
\* it starts as index(m) of the last front, a run of matches leaves it, an
\* Ins, Del or Sub takes 1 off, and it is 0 at (0, 0): the assertion g == 0
\* at the end of trace never fails.
C23_RunningCost ==
    /\ []GIsIndex
    /\ [](\A k \in 1..Len(results) : results[k].err # "assertion failed: g == 0")
    /\ [][GStep /\ GStart]_vars

\* C24: the height-doubling loop of the sparse traceback ends for every
\* block: some window of rows ending in to.j gives index(to.j) = g, the
\* window from the stored front's first row at the latest; the loop never
\* runs on with the whole range until its height overflows.
C24_RefillEnds ==
    \A k \in 1..Len(results) : results[k].err # "attempt to multiply with overflow"

\* The assertions on the column a block starts at and on the column of the
\* front a block is stored in.
ColumnAsserts == {"assert i_range.0 == self.i_range.1", "Computed range does not fit",
                  "assert prev_front.i == i_range.0",
                  "assert i_range.1 == fronts[last_front_idx].i",
                  "Reused front for another column"}

\* The fronts in use are in the order of their columns, and the last one is
\* at the end of the computed column range.
FrontsOrdered ==
    /\ \A k \in 1..Len(results) : results[k].err \notin ColumnAsserts
    /\ (Len(fronts) > last_front_idx) =>
           /\ \A k \in 1..last_front_idx : fronts[k].i < fronts[k + 1].i
           /\ fronts[last_front_idx + 1].i = i_range[2]

\* A call of align_for_bounded_dist starts again at column 0; a step of the
\* traceback moves the current state up or to the left, never to the right,
\* and removes no stored front.
ColumnStep ==
    /\ (pc = "bounded" /\ pc' = "blocks")
          => (i_range' = <<-1, 0>> /\ last_front_idx' = 0 /\ fronts'[1].i = 0)
    /\ (pc = "blocks" /\ pc' = "blocks")
          => (i_range'[2] > i_range[2] /\ Len(fronts') >= Len(fronts))
    /\ (pc = "trace" /\ pc' = "trace")
          => /\ st'[1] <= st[1]
             /\ st'[2] <= st[2]
             /\ st' # st
             /\ Len(fronts') >= Len(fronts)

\* C25: the fronts fronts[0..=last_front_idx] have strictly increasing
\* columns and the last one is at the end of i_range; every block starts at
\* that column (the assertions on it never fail); every band-doubling
\* iteration starts again at column 0; in the traceback the column of the
\* current state never increases and popping fronts removes none.
C25_ColumnsInOrder == []FrontsOrdered /\ [][ColumnStep]_vars

\* The traceback of a later band-doubling iteration has popped a front right
\* of the current state, which is still stored, and has moved on to the left
\* of the last front in use.
C25_Witness ==
    /\ pc = "trace"
    /\ Len(tried) >= 1
    /\ last_front_idx >= 1
    /\ Len(fronts) > last_front_idx + 1
    /\ st[1] < fronts[last_front_idx + 1].i
    /\ Len(cigar) >= 2

\* The next block is computed in the A* domain from a front with a fixed
\* range that is not empty.
BeforeAstarBlock ==
    /\ Forward
    /\ nw.domain = "Astar"
    /\ IsSome(f_max)
    /\ i_range[2] < n
    /\ IsSome(last_front(Self).fixed_j_range)
    /\ ~is_empty(Unwrap(last_front(Self).fixed_j_range))

\* The range j_range returns for the block of columns ir from the fixed
\* range of the front prev: it starts at the start of the fixed range and
\* ends on or below the diagonal through the last fixed row, or at row m, and
\* the assertion of f did not fail on the way.
RangeBelowDiagonal(ir, prev, r) ==
    /\ r.err = ""
    /\ r.r[1] = Unwrap(prev.fixed_j_range)[1]
    /\ r.r[2] >= Min2(Unwrap(prev.fixed_j_range)[2] + (ir[2] - ir[1]), m)

\* C26: in the A* domain the row range of a block, computed from a fixed
\* range of the previous front that is not empty, starts at the start of the
\* fixed range and ends at row min(fixed end + block length, m) or below;
\* with sparse_h on or off f is evaluated on or below the diagonal of the
\* last fixed state only, so the assertion inside f never fails.
C26_RangeBelowDiagonal ==
    /\ \A k \in 1..Len(results) : results[k].err # "f: v above the diagonal of u"
    /\ BeforeAstarBlock =>
           RangeBelowDiagonal(<<i_range[2], Min2(i_range[2] + nw.block_width, n)>>,
                              last_front(Self),
                              j_range(<<i_range[2], Min2(i_range[2] + nw.block_width, n)>>,
                                      f_max, last_front(Self)))

\* The modes of compute_columns.
HModes == {"None", "Input", "Update", "Output"}

\* What a compute_columns call on the columns ir in the given mode leaves in
\* the stored horizontal deltas hh: nothing new in the modes None and Input;
\* in every mode the deltas of the other columns as they were; in mode
\* Output what mode Update leaves when the deltas of ir are +1 before.
HFrame(ir, j0, vs, hh, mode) ==
    /\ Len(compute_columns(ir, j0, vs, hh, mode).h) = Len(hh)
    /\ mode \in {"None", "Input"} => compute_columns(ir, j0, vs, hh, mode).h = hh
    /\ \A k \in 1..Len(hh) :
           (k <= ir[1] \/ k > ir[2]) => compute_columns(ir, j0, vs, hh, mode).h[k] = hh[k]
    /\ mode = "Output" =>
           compute_columns(ir, j0, vs, hh, mode).h
               = compute_columns(ir, j0, vs, Splice(hh, ir[1], Ones(ir[2] - ir[1])),
                                 "Update").h

\* The next block of a run that stores horizontal deltas.
BeforeDeltaBlock ==
    /\ Forward
    /\ trace
    /\ params.incremental_doubling
    /\ i_range[2] < n
    /\ Len(h) = n

\* A block or a step of the traceback changes the stored horizontal deltas
\* in the columns of the block only, and not at all without incremental
\* doubling or in the traceback.
HStep ==
    /\ (pc = "blocks" /\ pc' = "blocks")
          => /\ Len(h') = Len(h)
             /\ \A k \in 1..Len(h) : (k <= i_range[2] \/ k > i_range'[2]) => h'[k] = h[k]
    /\ (pc = "trace" /\ pc' = "trace") => h' = h

\* C27: compute_columns in mode None or Input leaves the stored horizontal
\* deltas of all columns as they are; in mode Output the deltas of the
\* block's columns are set to +1 and then overwritten; in mode Update only
\* the deltas of the block's columns change.
C27_DeltasFrame ==
    /\ [](BeforeDeltaBlock =>
            \A mode \in HModes :
                HFrame(<<i_range[2], Min2(i_range[2] + nw.block_width, n)>>,
                       last_front(Self).offset, last_front(Self).v, h, mode))
    /\ [][HStep]_vars

\* The next block is computed in a later iteration with incremental
\* doubling, over stored horizontal deltas that an earlier block wrote.
C27_Witness ==
    /\ BeforeDeltaBlock
    /\ Len(tried) >= 1
    /\ Len(last_front(Self).v) > 0
    /\ \E k \in (i_range[2] + 1)..Min2(i_range[2] + nw.block_width, n) : h[k] = -1
    /\ \E k \in 1..n : h[k] = 1

\* The next block will be computed by the 3-range split: incremental
\* doubling on sparse fronts, a fixed range on the last front, and a next
\* front from the iteration before with a fixed range and a j_h above the
\* start of the inward-rounded fixed range.
BeforeSplit3 ==
    /\ Forward
    /\ trace
    /\ params.sparse
    /\ params.incremental_doubling
    /\ i_range[2] < n
    /\ Len(fronts) > last_front_idx + 1
    /\ IsSome(last_front(Self).fixed_j_range)
    /\ IsSome(fronts[last_front_idx + 2].fixed_j_range)
    /\ IsSome(fronts[last_front_idx + 2].j_h)
    /\ round_inward(Unwrap(fronts[last_front_idx + 2].fixed_j_range))[1]
         < Unwrap(fronts[last_front_idx + 2].j_h)

\* The rows the 3-range split carries over: from the start of the
\* inward-rounded fixed range of the next front to its j_h.
KeptRows ==
    round_inward(Unwrap(fronts[last_front_idx + 2].fixed_j_range))[1]
        ..(Unwrap(fronts[last_front_idx + 2].j_h) - 1)

\* A block computed by the 3-range split leaves the vertical deltas of the
\* kept rows as the iteration before stored them, at the new offset.
Split3Keeps ==
    (BeforeSplit3 /\ pc' = "blocks")
        => \A j \in KeptRows :
               /\ (j - fronts[last_front_idx + 2].offset + 1)
                      \in DOMAIN fronts[last_front_idx + 2].v
               /\ (j - fronts'[last_front_idx + 2].offset + 1)
                      \in DOMAIN fronts'[last_front_idx + 2].v
               /\ fronts'[last_front_idx + 2].v[j - fronts'[last_front_idx + 2].offset + 1]
                      = fronts[last_front_idx + 2].v[j - fronts[last_front_idx + 2].offset + 1]

\* C28: in the 3-range split of incremental doubling the vertical deltas of
\* the next front on the rows from the inward-rounded start of its old fixed
\* range to its old j_h are after compute_next_block what they were after
\* the iteration before, moved to the new offset; only the rows before and
\* after them are computed again.
C28_FixedRowsKept == [][Split3Keeps]_vars

\* A 3-range split is about to keep at least a word of rows that are not at
\* the start of the new range, with the j_h moving up.
C28_Witness ==
    /\ BeforeSplit3
    /\ KeptRows # {}
    /\ \E j \in KeptRows : fronts[last_front_idx + 2].v[j - fronts[last_front_idx + 2].offset + 1] # 1
    /\ Unwrap(fronts[last_front_idx + 2].j_h)
         < round_inward(Unwrap(last_front(Self).fixed_j_range))[2]

\* C29: on the same A, B and configuration, cost (the single front updated
\* in place) returns the cost that align with trace returns, whatever the
\* trace configuration.
C29_CostIsAlignCost ==
    \A k \in 2..Len(results) :
        (~Configs[1].trace /\ Configs[k].trace /\ results[k].err = "")
            => (results[1].err = "" /\ results[1].cost = results[k].cost)

\* Where cost and align with trace both return, they return the same cost.
C29_SameCostWhereBothReturn ==
    \A k \in 2..Len(results) :
        (results[1].err = "" /\ results[k].err = "") => results[k].cost = results[1].cost

\* ------------------------------------------------------------------------
\* The cost-matrix NW aligner (src/aligners/nw.rs) under exponential_search
\* ------------------------------------------------------------------------
\* In this specification nw is the record of the aligner's switches
\* (use_gap_cost_heuristic, exponential_search; the heuristic is NoCost),
\* fronts holds the front `next`, and i_range.1 is its column.
INF == 1073741823
LEFT_BUFFER == 2
RIGHT_BUFFER == 2

\* pad: the sequence with one and the same character put in front.
pad(x) == <<-1>> \o x

\* Front::new(INF, range, LEFT_BUFFER, RIGHT_BUFFER): the cells of the range
\* and of the buffers on both sides, all INF.
Front_new(range) ==
    [range |-> range,
     m |-> [j \in (range[1] - LEFT_BUFFER)..(range[2] + RIGHT_BUFFER) |-> INF]]

\* Front layer get: None outside the range and its buffers.
Front_get(front, j) == IF j \in DOMAIN front.m THEN Some(front.m[j]) ELSE None

\* j_range of the aligner for the default heuristic: the diagonals within
\* cost s of the start, or within the gap-cost band, cropped to the column.
nw_j_range(i, fm) ==
    IF ~IsSome(fm) THEN <<1, m + 1>>
    ELSE LET s == Unwrap(fm)
             d == (m + 1) - (n + 1)
             s1 == s - gap_cost(<<0, 0>>, <<n + 1, m + 1>>)
             extra_diagonals == TDiv(s1, min_ins_extend + min_del_extend)
             range == IF nw.use_gap_cost_heuristic
                      THEN <<Min2(d, 0) - extra_diagonals, Max2(d, 0) + extra_diagonals>>
                      ELSE <<-max_del_for_cost(s), max_ins_for_cost(s)>>
         IN  <<Max2(i + range[1], 1), Min2(i + range[2], m + 1)>>

\* The cheapest way into state (i, j) over its parents: the diagonal edge
\* (free on equal characters), the deletion and the insertion.
nw_best(i, j, prev, next) ==
    LET diag == Front_get(prev, j - 1)
        del  == Front_get(prev, j)
        ins  == Front_get(next, j - 1)
        sub  == IF pad(a)[i] = pad(b)[j] THEN 0 ELSE 1
        c1   == IF IsSome(diag) THEN Min2(INF, Unwrap(diag) + sub) ELSE INF
        c2   == IF IsSome(del) THEN Min2(c1, Unwrap(del) + 1) ELSE c1
    IN  IF IsSome(ins) THEN Min2(c2, Unwrap(ins) + 1) ELSE c2

\* next_front: the cells of column i, rows j .. end of the range, in order.
RECURSIVE nw_next_front(_, _, _, _)
nw_next_front(i, j, prev, next) ==
    IF j > next.range[2] THEN next
    ELSE nw_next_front(i, j + 1, prev, [next EXCEPT !.m[j] = nw_best(i, j, prev, next)])

\* The switches of the aligner: without exponential search the gap-cost
\* band is not allowed (the assertion of cost).
OldNWs ==
    {[use_gap_cost_heuristic |-> gc, exponential_search |-> es] :
        gc \in BOOLEAN, es \in BOOLEAN} \ {[use_gap_cost_heuristic |-> TRUE,
                                             exponential_search |-> FALSE]}

InitNW ==
    /\ a \in {x \in SeqsUpTo(Alphabet, MaxLenA) : Len(x) = 0 \/ x[1] = 0}
    /\ b \in SeqsUpTo(Alphabet, MaxLenB)
    /\ nw \in OldNWs
    /\ params = [sparse |-> FALSE, incremental_doubling |-> FALSE]
    /\ trace = FALSE
    /\ fronts = <<>>
    /\ last_front_idx = 0
    /\ i_range = <<-1, 0>>
    /\ h = <<>>
    /\ f_max = None
    /\ pc = "start"
    /\ st = <<0, 0>>
    /\ g = 0
    /\ block_start = 0
    /\ cigar = <<>>
    /\ dist = 0
    /\ ret = None
    /\ tried = <<>>
    /\ differ = FALSE
    /\ results = <<>>

\* cost: the start bound of the search is the gap cost between the ends.
nw_cost ==
    /\ pc = "start"
    /\ f_max' = IF nw.exponential_search
                THEN Some(gap_cost(<<0, 0>>, <<n, m>>)) ELSE None
    /\ pc' = "bounded"
    /\ UNCHANGED <<a, b, nw, params, trace, fronts, last_front_idx, i_range, h, st, g,
                   block_start, cigar, dist, ret, tried, differ, results>>

\* cost_for_bounded_dist up to its loop: front 0 with the start state.
nw_cost_for_bounded_dist ==
    /\ pc = "bounded"
    /\ fronts' = <<[Front_new(nw_j_range(0, f_max)) EXCEPT !.m[0] = 0]>>
    /\ i_range' = <<-1, 0>>
    /\ pc' = "blocks"
    /\ UNCHANGED <<a, b, nw, params, trace, last_front_idx, h, f_max, st, g,
                   block_start, cigar, dist, ret, tried, differ, results>>

\* One iteration of the loop of cost_for_bounded_dist: column i.
nw_column ==
    /\ pc = "blocks"
    /\ i_range[2] < n + 1
    /\ LET i     == i_range[2] + 1
           range == nw_j_range(i, f_max)
       IN  IF is_empty(range) THEN Return(None)
           ELSE /\ fronts' = <<nw_next_front(i, range[1], fronts[1], Front_new(range))>>
                /\ i_range' = <<-1, i>>
                /\ UNCHANGED <<a, b, nw, params, trace, last_front_idx, h, f_max, pc, st, g,
                               block_start, cigar, dist, ret, tried, differ, results>>

\* cost_for_bounded_dist after its loop: the cell of the target, if stored.
nw_target ==
    /\ pc = "blocks"
    /\ i_range[2] = n + 1
    /\ LET d == Front_get(fronts[1], m + 1)
       IN  Return(IF IsSome(d) THEN Some(<<Unwrap(d), None>>) ELSE None)

\* exponential_search returns what f returned within the bound; without
\* exponential search the one unbounded call is unwrapped.
nw_search_return ==
    /\ pc = "searched"
    /\ IF nw.exponential_search
       THEN /\ found(ret, Unwrap(f_max))
            /\ tried' = Append(tried, [s |-> Unwrap(f_max), ret |-> ret])
       ELSE /\ IsSome(ret)
            /\ tried' = tried
    /\ results' = Append(results, Outcome(Unwrap(ret)[1], None, ""))
    /\ pc' = "done"
    /\ UNCHANGED <<a, b, nw, params, trace, fronts, last_front_idx, i_range, h, f_max,
                   st, g, block_start, cigar, dist, ret, differ>>

\* exponential_search tries the next bound, with the factor 2 of cost.
nw_search_next ==
    /\ pc = "searched"
    /\ nw.exponential_search
    /\ ~found(ret, Unwrap(f_max))
    /\ Unwrap(f_max) <= MaxBound
    /\ tried' = Append(tried, [s |-> Unwrap(f_max), ret |-> ret])
    /\ f_max' = Some(next_bound(<<2, 1>>, Unwrap(f_max)))
    /\ pc' = "bounded"
    /\ UNCHANGED <<a, b, nw, params, trace, fronts, last_front_idx, i_range, h,
                   st, g, block_start, cigar, dist, ret, differ, results>>

NextNW ==
    \/ nw_cost
    \/ nw_cost_for_bounded_dist
    \/ nw_column
    \/ nw_target
    \/ nw_search_return
    \/ nw_search_next

SpecNW == InitNW /\ [][NextNW]_vars

\* C7 on the cost-matrix aligner: the bounds exponential_search tries (start
\* bound >= 0, factor 2) are strictly increasing, and f fails only at bounds
\* below the edit distance: the search returns at the first bound >= the
\* distance at the latest, with the distance.
C7_BoundsIncrease ==
    /\ \A k \in 1..Len(tried) :
          /\ tried[k].s >= 0
          /\ k > 1 => tried[k - 1].s < tried[k].s
          /\ IF k = Len(tried) /\ Returned
             THEN LastResult.cost = Lev(a, b)
             ELSE tried[k].s < Lev(a, b)
    /\ (Len(tried) > 0 /\ IsSome(f_max)) => tried[Len(tried)].s <= Unwrap(f_max)
    /\ (Len(tried) > 0 /\ pc \in {"bounded", "blocks", "searched"})
          => tried[Len(tried)].s < Unwrap(f_max)

\* The search started at bound 0 and returned at its third bound or later.
C7_Witness ==
    /\ Returned
    /\ Len(tried) >= 3
    /\ tried[1].s = 0
    /\ tried[Len(tried)].s >= Lev(a, b)

\* C18: cost_for_bounded_dist(a, b, Some(s)) of the cost-matrix aligner
\* returns None when the edit distance of a and b is greater than s, and
\* Some(the edit distance) otherwise; it never returns a cost above s.
C18_BoundedCost ==
    BoundedReturned =>
        IF Lev(a, b) > Unwrap(f_max)
        THEN ~IsSome(ret)
        ELSE ret = Some(<<Lev(a, b), None>>)

\* ------------------------------------------------------------------------
\* BitFront::index on its own
\* ------------------------------------------------------------------------
\* In this specification fronts holds one front whose top_val, deltas and
\* bot_val agree, st.j is the row asked for and g the value index returned.
\* Most words of deltas in a front.
MaxWords == 2
\* Rows asked for below the rounded range.
MaxBelow == 2

\* The fronts index is called on: every vector of deltas of one or more
\* words, every offset and row range that pass the assertions of index,
\* and a bot_val that is top_val plus the deltas of the rounded range.
IndexFronts ==
    {BitFront(v, 0, jr, None, off, top,
              top + SumRange(v, round(jr)[1] - off, round(jr)[2] - off), None) :
        v \in UNION {[1..(k * W) -> {-1, 0, 1}] : k \in 1..MaxWords},
        jr \in {r \in (0..(MaxWords * W)) \X (0..(MaxWords * W)) : r[1] <= r[2]},
        off \in {k * W : k \in 0..1},
        top \in 0..1}

InitIndex ==
    /\ a = <<>>
    /\ b = <<>>
    /\ nw \in {NW("Full", "Zero", "None", "Zero", 1, TRUE)}
    /\ params = [sparse |-> FALSE, incremental_doubling |-> FALSE]
    /\ trace = FALSE
    /\ fronts \in {<<f>> : f \in {x \in IndexFronts :
                                     /\ round(x.j_range)[1] - x.offset >= 0
                                     /\ round(x.j_range)[2] - x.offset <= Len(x.v)}}
    /\ last_front_idx = 0
    /\ i_range = <<-1, 0>>
    /\ h = <<>>
    /\ f_max = None
    /\ pc = "start"
    /\ st = <<0, 0>>
    /\ g = 0
    /\ block_start = 0
    /\ cigar = <<>>
    /\ dist = 0
    /\ ret = None
    /\ tried = <<>>
    /\ differ = FALSE
    /\ results = <<>>

\* A call of index on a row from the start of the rounded range on.
index_call ==
    /\ pc = "start"
    /\ \E j \in round(fronts[1].j_range)[1]..(round(fronts[1].j_range)[2] + MaxBelow) :
           /\ index_asserts(fronts[1], j)
           /\ st' = <<0, j>>
           /\ g' = index(fronts[1], j)
    /\ pc' = "done"
    /\ UNCHANGED <<a, b, nw, params, trace, fronts, last_front_idx, i_range, h, f_max,
                   block_start, cigar, dist, ret, tried, differ, results>>

NextIndex == index_call

SpecIndex == InitIndex /\ [][NextIndex]_vars

\* C21: on a front whose top_val plus deltas is its bot_val, index(j) of a
\* row j of the rounded range is top_val plus the deltas of the rows from the
\* start of the rounded range to j - 1, from whichever end the scan starts;
\* below the rounded range index(j) is bot_val plus the distance to its end.
C21_IndexIsPrefixSum ==
    pc = "done" =>
        IF st[2] <= round(fronts[1].j_range)[2]
        THEN g = fronts[1].top_val
                   + SumRange(fronts[1].v, round(fronts[1].j_range)[1] - fronts[1].offset,
                              st[2] - fronts[1].offset)
        ELSE g = fronts[1].bot_val + (st[2] - round(fronts[1].j_range)[2])

\* index scanned up from bot_val over at least one row, across deltas that
\* are not all the same, on a front stored at an offset above its range.
C21_Witness ==
    /\ pc = "done"
    /\ st[2] < round(fronts[1].j_range)[2]
    /\ st[2] - round(fronts[1].j_range)[1] >= round(fronts[1].j_range)[2] - st[2]
    /\ st[2] > round(fronts[1].j_range)[1]
    /\ fronts[1].offset < round(fronts[1].j_range)[1]
    /\ \E k \in DOMAIN fronts[1].v : fronts[1].v[k] = -1
    /\ \E k \in DOMAIN fronts[1].v : fronts[1].v[k] = 1

\* ------------------------------------------------------------------------
\* NWInstance::fixed_j_range on its own
\* ------------------------------------------------------------------------
\* In this specification fronts holds one front with vertical deltas of -1,
\* 0 and +1, the heuristic changes by at most 1 from a row to the next, st.i
\* is the column asked for, ret the range returned and dist the number of
\* the call's panics.
\* The largest bound f_max of a call.
MaxFMax == 2

\* The heuristics of the model that change by at most 1 between vertically
\* adjacent positions.
ColumnConsistent == {"Zero", "Gap"}

InitFixed ==
    /\ a = <<0, 0>>
    /\ b = <<0, 0, 0, 0>>
    /\ nw \in {NW("Astar", hk, "BandDoubling", "H0", 1, sp) :
                  hk \in ColumnConsistent, sp \in BOOLEAN}
    /\ params = [sparse |-> FALSE, incremental_doubling |-> FALSE]
    /\ trace = FALSE
    /\ fronts \in {<<f>> : f \in {x \in IndexFronts :
                                     /\ round(x.j_range)[1] - x.offset >= 0
                                     /\ round(x.j_range)[2] - x.offset <= Len(x.v)
                                     /\ x.j_range[2] <= m}}
    /\ last_front_idx = 0
    /\ i_range = <<-1, 0>>
    /\ h = <<>>
    /\ f_max \in {Some(s) : s \in 0..MaxFMax}
    /\ pc = "start"
    /\ st = <<0, 0>>
    /\ g = 0
    /\ block_start = 0
    /\ cigar = <<>>
    /\ dist = 0
    /\ ret = None
    /\ tried = <<>>
    /\ differ = FALSE
    /\ results = <<>>

\* A call of fixed_j_range on the front, for a column of A.
fixed_j_range_call ==
    /\ pc = "start"
    /\ \E i \in 0..n :
           \E r \in {fixed_j_range(i, f_max, fronts[1])} :
               /\ st' = <<i, 0>>
               /\ ret' = r.r
               /\ dist' = (IF r.err = "" THEN 0 ELSE 1)
    /\ pc' = "done"
    /\ UNCHANGED <<a, b, nw, params, trace, fronts, last_front_idx, i_range, h, f_max,
                   g, block_start, cigar, tried, differ, results>>

NextFixed == fixed_j_range_call

SpecFixed == InitFixed /\ [][NextFixed]_vars

\* f of row j of the front, in column i.
f_of(i, front, j) == index(front, j) + h_of(nw.heuristic, <<i, j>>)

\* The rows of the front's j_range with f <= f_max.
RowsInBound(i, fm, front) ==
    {j \in front.j_range[1]..front.j_range[2] : f_of(i, front, j) <= fm}

Least(S) == CHOOSE x \in S : \A y \in S : x <= y
Greatest(S) == CHOOSE x \in S : \A y \in S : y <= x

\* What the two loops return when they step one row at a time: the first
\* and the last row with f <= f_max, and (end + 1, end) when there is none.
StepRange(i, fm, front) ==
    IF RowsInBound(i, fm, front) = {}
    THEN JRange(front.j_range[2] + 1, front.j_range[2])
    ELSE JRange(Least(RowsInBound(i, fm, front)), Greatest(RowsInBound(i, fm, front)))

\* With sparse_h = false fixed_j_range returns StepRange.
SteppingIsStepRange ==
    (pc = "done" /\ ~nw.sparse_h)
        => (dist = 0 /\ ret = Some(StepRange(st[1], Unwrap(f_max), fronts[1])))

JumpsSkipNoRow ==
    (pc = "done" /\ nw.sparse_h)
        => /\ dist = 0
           /\ IsSome(ret)
           /\ Unwrap(ret)[2] = StepRange(st[1], Unwrap(f_max), fronts[1])[2]
           /\ Unwrap(ret)[1] >= StepRange(st[1], Unwrap(f_max), fronts[1])[1]
           /\ RowsInBound(st[1], Unwrap(f_max), fronts[1]) # {}
                  => ret = Some(StepRange(st[1], Unwrap(f_max), fronts[1]))

=============================================================================
